---- MODULE Spec2Model ----
(***************************************************************************)
(* A model of tsgoast: the conversion of the engine's concrete syntax tree *)
(* into BaseNodes (Parser.Parse / convertNode), the reconstruction of the  *)
(* typed statement sequence (Parser.ParseTree / buildStatement), the life  *)
(* of the parser (New, Close), the traversal layer of the analyzer (Visit, *)
(* FindNodes, CountNodes) and the node helpers GetFunctionName and         *)
(* IsExported.                                                             *)
(*                                                                         *)
(* Texts are TLA+ strings; Go's 0-based byte offsets are kept, so the      *)
(* string helpers below return what the strings package returns.           *)
(* A pointer to a BaseNode is its index in the heap of the parse; 0 is the *)
(* nil pointer.                                                            *)
(***************************************************************************)
EXTENDS Integers, Sequences, FiniteSets, TLC

VARIABLES parser, request, source, cst, heap, tree, err, root, call

vars == <<parser, request, source, cst, heap, tree, err, root, call>>

NilPtr == 0

(***************************************************************************)
(* Bounds of the model.                                                    *)
(***************************************************************************)
\* longest sequence of mixed top-level statements in a generated source
MaxTop == 2
\* largest number of nodes on which a visitor answers "stop"
MaxStops == 2
\* largest number of node types a predicate accepts
MaxPredTypes == 2
\* largest number of Close calls on the parser
MaxCloses == 3
\* deepest nesting of parentheses around an arrow function
MaxNest == 2
\* most ancestors above an arrow function in a tree built by hand
MaxChain == 3

(***************************************************************************)
(* The strings package.  A string is the sequence of the bytes of a Go     *)
(* string: a character below U+0100 stands for the byte of that value, so  *)
(* that a character outside ASCII is the two or three characters of its    *)
(* UTF-8 encoding (U+00E9 is the bytes C3 A9, the two characters U+00C3    *)
(* U+00A9).  Len, Slice and Index count bytes, as they do in Go.           *)
(***************************************************************************)
Min(S) == CHOOSE x \in S : \A y \in S : x <= y

\* the least element of S, or none when S is empty
MinOr(S, none) == IF S = {} THEN none ELSE Min(S)

\* s[i:j] with Go's 0-based, end-exclusive byte offsets
Slice(s, i, j) == SubSeq(s, i + 1, j)

HasPrefix(s, prefix) ==
    /\ Len(s) >= Len(prefix)
    /\ Slice(s, 0, Len(prefix)) = prefix

\* strings.Index: the byte offset of the first occurrence of substr, or -1
Index(s, substr) ==
    MinOr({i \in 0..(Len(s) - Len(substr)) :
              Slice(s, i, i + Len(substr)) = substr}, -1)

Contains(s, substr) == Index(s, substr) >= 0

\* the message of the panic of a slice expression whose bounds are out of
\* range
SliceBoundsPanic == "panic: runtime error: slice bounds out of range"

\* s[:j]: the bytes before offset j, or the panic when j is out of range
SliceTo(s, j) ==
    IF j >= 0 /\ j <= Len(s) THEN [panic |-> FALSE, str |-> Slice(s, 0, j)]
    ELSE [panic |-> TRUE, str |-> ""]

TrimPrefix(s, prefix) ==
    IF HasPrefix(s, prefix) THEN Slice(s, Len(prefix), Len(s)) ELSE s

\* the UTF-8 encodings of the characters unicode.IsSpace accepts: '\t',
\* '\n', '\v', '\f', '\r', ' ' in one byte; U+0085 and U+00A0 in two;
\* U+1680, U+2000 to U+200A, U+2028, U+2029, U+202F, U+205F and U+3000 in
\* three.  The bytes that have no escape are written as themselves.
SpaceRunes ==
    {" ", "\t", "\n", "\r", "\f", "",
     "Â", "Â ",
     "á", "â", "â", "â", "â", "â",
     "â", "â", "â", "â", "â", "â",
     "â¨", "â©", "â¯", "â", "ã"}

\* unicode.IsSpace on the character whose encoding is c
IsSpace(c) == c \in SpaceRunes

\* the number of bytes of the white space character s begins with or ends
\* with, 0 when it begins or ends with another character or with a byte
\* that is no encoding
LeadingSpace(s) ==
    MinOr({w \in 1..3 : w <= Len(s) /\ IsSpace(SubSeq(s, 1, w))}, 0)
TrailingSpace(s) ==
    MinOr({w \in 1..3 :
              w <= Len(s) /\ IsSpace(SubSeq(s, Len(s) - w + 1, Len(s)))}, 0)

\* strings.TrimLeftFunc and strings.TrimRightFunc with unicode.IsSpace: s
\* without the w bytes of the white space character at its end, and then
\* without the white space that follows
RECURSIVE TrimLeftSpace(_), TrimRightSpace(_)
DropLeading(s, w) ==
    IF w = 0 THEN s ELSE TrimLeftSpace(SubSeq(s, w + 1, Len(s)))
DropTrailing(s, w) ==
    IF w = 0 THEN s ELSE TrimRightSpace(SubSeq(s, 1, Len(s) - w))
TrimLeftSpace(s) == DropLeading(s, LeadingSpace(s))
TrimRightSpace(s) == DropTrailing(s, TrailingSpace(s))

\* strings.TrimSpace: the white space is cut off the front and off the back
TrimSpace(s) == TrimRightSpace(TrimLeftSpace(s))

(***************************************************************************)
(* The parsing engine (tree-sitter, an external collaborator).  Its tree   *)
(* is a nested record: kind tag, start and end byte offsets, children.     *)
(* A source is written down as the list of its top-level constructs, each  *)
(* a shape [kind, text, kids]; Engine lays the shapes out over the source  *)
(* bytes, which is all the Go code reads of the engine's tree.  Null is    *)
(* the child the engine reports as a null node (Node.Child returning nil). *)
(***************************************************************************)
N(kind, text, kids) ==
    [kind |-> kind, text |-> text, kids |-> kids, null |-> FALSE]
L(kind, text) == N(kind, text, <<>>)
Null == [kind |-> "", text |-> "", kids |-> <<>>, null |-> TRUE]

\* the nil *sitter.Node
NullNode ==
    [kind |-> "", start |-> 0, end |-> 0, children |-> <<>>, null |-> TRUE]

RECURSIVE Place(_, _), PlaceKids(_, _, _, _)
\* the engine node of shape t whose first byte is at offset start
Place(t, start) ==
    IF t.null THEN NullNode
    ELSE [kind     |-> t.kind,
          start    |-> start,
          end      |-> start + Len(t.text),
          children |-> PlaceKids(t.kids, t.text, start, 0),
          null     |-> FALSE]

\* the children follow each other in the parent's text, from cursor on
PlaceKids(kids, ptext, pstart, cursor) ==
    IF kids = <<>> THEN <<>>
    ELSE LET k   == Head(kids)
             off == cursor + Index(Slice(ptext, cursor, Len(ptext)), k.text)
         IN  <<Place(k, pstart + off)>>
                 \o PlaceKids(Tail(kids), ptext, pstart, off + Len(k.text))

RECURSIVE JoinLines(_)
JoinLines(shapes) ==
    IF shapes = <<>> THEN ""
    ELSE IF Len(shapes) = 1 THEN shapes[1].text
    ELSE shapes[1].text \o "\n" \o JoinLines(Tail(shapes))

\* the bytes of the source made of the given top-level shapes
SourceOf(shapes) == JoinLines(shapes)

\* sitter.Parser.Parse followed by Tree.RootNode: the program node
Engine(shapes) == Place(N("program", SourceOf(shapes), shapes), 0)

(***************************************************************************)
(* Taxonomy classifier.                                                    *)
(***************************************************************************)
NodeTypeFunction      == "function"
NodeTypeArrowFunction == "arrow_function"
NodeTypeMethod        == "method"
NodeTypeInterface     == "interface"
NodeTypeTypeAlias     == "type_alias"
NodeTypeExpression    == "expression"
NodeTypeIdentifier    == "identifier"
NodeTypeLiteral       == "literal"
NodeTypeProperty      == "property"
NodeTypeParameter     == "parameter"
NodeTypeUnknown       == "unknown"

NodeTypes ==
    {NodeTypeFunction, NodeTypeArrowFunction, NodeTypeMethod,
     NodeTypeInterface, NodeTypeTypeAlias, NodeTypeExpression,
     NodeTypeIdentifier, NodeTypeLiteral, NodeTypeProperty,
     NodeTypeParameter, NodeTypeUnknown}

nodeTypeMap ==
    [k \in {"function_declaration", "arrow_function", "method_definition",
            "interface_declaration", "type_alias_declaration", "identifier",
            "property_signature", "formal_parameters", "required_parameter",
            "optional_parameter", "string", "number", "true", "false",
            "null", "undefined"} |->
        CASE k = "function_declaration"   -> NodeTypeFunction
          [] k = "arrow_function"         -> NodeTypeArrowFunction
          [] k = "method_definition"      -> NodeTypeMethod
          [] k = "interface_declaration"  -> NodeTypeInterface
          [] k = "type_alias_declaration" -> NodeTypeTypeAlias
          [] k = "identifier"             -> NodeTypeIdentifier
          [] k = "property_signature"     -> NodeTypeProperty
          [] k \in {"formal_parameters", "required_parameter",
                    "optional_parameter"} -> NodeTypeParameter
          [] k \in {"string", "number", "true", "false", "null",
                    "undefined"}          -> NodeTypeLiteral]

expressionTypes ==
    {"binary_expression", "unary_expression", "call_expression",
     "member_expression", "assignment_expression", "ternary_expression",
     "new_expression", "await_expression"}

\* faulty variant: the expression set is not consulted
mapNodeTypeDirectOnly(tsType) ==
    IF tsType \in DOMAIN nodeTypeMap THEN nodeTypeMap[tsType]
    ELSE NodeTypeUnknown

mapNodeType(tsType) ==
    IF tsType \in DOMAIN nodeTypeMap THEN nodeTypeMap[tsType]
    ELSE IF tsType \in expressionTypes THEN NodeTypeExpression
    ELSE NodeTypeUnknown

(***************************************************************************)
(* Parser.convertNode: the structural copy of the engine's tree.  The heap *)
(* is the sequence of BaseNodes allocated so far; a node is allocated      *)
(* before its children, so the node converted by convertNode(n, s, p, h)   *)
(* is Len(h) + 1.  Lines and columns are not read by any operation of the  *)
(* model and are left out of Position.                                     *)
(***************************************************************************)
RECURSIVE convertNode(_, _, _, _), convertChildren(_, _, _, _, _)
\* faulty variant: the text is cut from the node's start to the end of the
\* source
convertNodeTextToEnd(node, src, parent, h) ==
    IF node.null THEN h
    ELSE LET id       == Len(h) + 1
             baseNode == [NodeType    |-> mapNodeType(node.kind),
                          Content     |-> Slice(src, node.start, Len(src)),
                          SourceRange |-> [Start |-> [Offset |-> node.start],
                                           End   |-> [Offset |-> node.end]],
                          ChildNodes  |-> <<>>,
                          ParentNode  |-> IF parent # NilPtr THEN parent
                                          ELSE NilPtr]
         IN  convertChildren(node.children, 1, src, id, Append(h, baseNode))

convertNode(node, src, parent, h) ==
    IF node.null THEN h
    ELSE LET id       == Len(h) + 1
             baseNode == [NodeType    |-> mapNodeType(node.kind),
                          Content     |-> Slice(src, node.start, node.end),
                          SourceRange |-> [Start |-> [Offset |-> node.start],
                                           End   |-> [Offset |-> node.end]],
                          ChildNodes  |-> <<>>,
                          ParentNode  |-> IF parent # NilPtr THEN parent
                                          ELSE NilPtr]
         IN  convertChildren(node.children, 1, src, id, Append(h, baseNode))

\* faulty variant: the child is converted without its parent
convertChildrenOrphans(children, i, src, id, h) ==
    IF i > Len(children) THEN h
    ELSE IF children[i].null
         THEN convertChildren(children, i + 1, src, id, h)
    ELSE LET childNode == Len(h) + 1
             h1 == convertNode(children[i], src, NilPtr, h)
         IN  IF Len(h1) < childNode
             THEN convertChildren(children, i + 1, src, id, h1)
             ELSE convertChildren(children, i + 1, src, id,
                      [h1 EXCEPT ![id].ChildNodes = Append(@, childNode)])

\* the loop over node.Child(i), from the i-th child on: a nil child is
\* passed over, the others are converted and, unless convertNode returned
\* nil (it allocated nothing), appended
convertChildren(children, i, src, id, h) ==
    IF i > Len(children) THEN h
    ELSE IF children[i].null
         THEN convertChildren(children, i + 1, src, id, h)
    ELSE LET childNode == Len(h) + 1
             h1 == convertNode(children[i], src, id, h)
         IN  IF Len(h1) < childNode
             THEN convertChildren(children, i + 1, src, id, h1)
             ELSE convertChildren(children, i + 1, src, id,
                      [h1 EXCEPT ![id].ChildNodes = Append(@, childNode)])

(***************************************************************************)
(* Statement reconstructor.  A statement is a record: its variant, the     *)
(* copy of the BaseNode it was built from (BaseNode: *node) and the        *)
(* variant's own fields.  NilStmt is the nil ast.Statement.                *)
(***************************************************************************)
NilStmt == [variant |-> "nil"]

\* the text of the first Identifier-tagged direct child, or none
HasIdentifierChild(h, node) ==
    \E i \in 1..Len(node.ChildNodes) :
        h[node.ChildNodes[i]].NodeType = NodeTypeIdentifier

FirstIdentifierChild(h, node) ==
    h[node.ChildNodes[Min({i \in 1..Len(node.ChildNodes) :
        h[node.ChildNodes[i]].NodeType = NodeTypeIdentifier})]]

\* text[:idx] without the white space around it, or the panic of the slice
\* expression
NameBefore(text, idx) == [SliceTo(text, idx) EXCEPT !.str = TrimSpace(@)]

\* the text of a function without a leading "async " and the white space
\* after it
WithoutAsync(text) ==
    IF HasPrefix(text, "async ")
    THEN TrimSpace(TrimPrefix(text, "async ")) ELSE text

\* the text of a function without a leading "function " or "function*"
WithoutFunction(text) ==
    IF HasPrefix(text, "function ") THEN TrimPrefix(text, "function ")
    ELSE IF HasPrefix(text, "function*") THEN TrimPrefix(text, "function*")
    ELSE text

\* the name before the "(" at offset idx of text, "" when there is no "("
\* after the first byte
functionNameAt(text, idx) ==
    IF idx > 0 THEN NameBefore(text, idx) ELSE [panic |-> FALSE, str |-> ""]

functionNameIn(text) == functionNameAt(text, Index(text, "("))

\* the fallback of extractFunctionName: the name cut out of the text of
\* the node, or the panic of the slice expression
functionNameFromText(node) ==
    functionNameIn(
        TrimSpace(WithoutFunction(WithoutAsync(TrimSpace(node.Content)))))

\* faulty variant: the name is always cut out of the text
extractFunctionNameTextOnly(h, node) == functionNameFromText(node).str

extractFunctionName(h, node) ==
    IF HasIdentifierChild(h, node) THEN FirstIdentifierChild(h, node).Content
    ELSE functionNameFromText(node).str

classDelims == <<"{", " extends", " implements", "<">>

\* the loop over the delimiters, from the i-th on; classNameAt is its body
\* for the i-th delimiter, found at offset idx of text or not at all
RECURSIVE classNameUpTo(_, _)
classNameAt(text, i, idx) ==
    IF idx > 0 THEN NameBefore(text, idx) ELSE classNameUpTo(text, i + 1)
classNameUpTo(text, i) ==
    IF i > Len(classDelims) THEN [panic |-> FALSE, str |-> TrimSpace(text)]
    ELSE classNameAt(text, i, Index(text, classDelims[i]))

\* the text of a class without a leading "abstract " and the white space
\* after it
WithoutAbstract(text) ==
    IF HasPrefix(text, "abstract ")
    THEN TrimSpace(TrimPrefix(text, "abstract ")) ELSE text

\* the text of a class without a leading "class "
WithoutClass(text) ==
    IF HasPrefix(text, "class ") THEN TrimPrefix(text, "class ") ELSE text

\* the fallback of extractClassName: the name cut out of the text of the
\* node, or the panic of the slice expression
classNameFromText(node) ==
    classNameUpTo(
        TrimSpace(WithoutClass(WithoutAbstract(TrimSpace(node.Content)))), 1)

extractClassName(h, node) ==
    IF HasIdentifierChild(h, node) THEN FirstIdentifierChild(h, node).Content
    ELSE classNameFromText(node).str

buildVariableStatement(node) ==
    [variant  |-> "VariableStatement",
     BaseNode |-> node,
     Kind     |-> IF Contains(node.Content, "const ") THEN "const"
                  ELSE IF Contains(node.Content, "let ") THEN "let"
                  ELSE "var"]

buildFunctionDeclaration(h, node) ==
    [variant     |-> "FunctionDeclaration",
     BaseNode    |-> node,
     Name        |-> extractFunctionName(h, node),
     IsAsync     |-> Contains(node.Content, "async "),
     IsExported  |-> HasPrefix(TrimSpace(node.Content), "export "),
     IsGenerator |-> Contains(node.Content, "function*")]

buildClassDeclaration(h, node) ==
    [variant    |-> "ClassDeclaration",
     BaseNode   |-> node,
     Name       |-> extractClassName(h, node),
     IsAbstract |-> Contains(node.Content, "abstract "),
     IsExported |-> HasPrefix(TrimSpace(node.Content), "export ")]

\* faulty variant: " in " is looked for before " of "
buildForStatementInFirst(node) ==
    IF Contains(node.Content, " in ")
    THEN [variant |-> "ForInStatement", BaseNode |-> node]
    ELSE IF Contains(node.Content, " of ")
    THEN [variant  |-> "ForOfStatement",
          BaseNode |-> node,
          IsAwait  |-> Contains(node.Content, "await ")]
    ELSE [variant |-> "ForStatement", BaseNode |-> node]

buildForStatement(node) ==
    IF Contains(node.Content, " of ")
    THEN [variant  |-> "ForOfStatement",
          BaseNode |-> node,
          IsAwait  |-> Contains(node.Content, "await ")]
    ELSE IF Contains(node.Content, " in ")
    THEN [variant |-> "ForInStatement", BaseNode |-> node]
    ELSE [variant |-> "ForStatement", BaseNode |-> node]

\* faulty variant: every export is taken for a default export
buildExportDeclarationAllDefault(node) ==
    [variant   |-> "ExportDeclaration",
     BaseNode  |-> node,
     IsDefault |-> Contains(node.Content, "export")]

buildExportDeclaration(node) ==
    [variant   |-> "ExportDeclaration",
     BaseNode  |-> node,
     IsDefault |-> Contains(node.Content, "export default")]

buildEnumDeclaration(node) ==
    [variant    |-> "EnumDeclaration",
     BaseNode   |-> node,
     IsConst    |-> Contains(node.Content, "const enum"),
     IsExported |-> HasPrefix(TrimSpace(node.Content), "export ")]

\* faulty variant: the word export anywhere in the text sets the flag
buildNamespaceDeclarationAnyExport(node) ==
    [variant    |-> "NamespaceDeclaration",
     BaseNode   |-> node,
     IsExported |-> Contains(node.Content, "export ")]

buildNamespaceDeclaration(node) ==
    [variant    |-> "NamespaceDeclaration",
     BaseNode   |-> node,
     IsExported |-> HasPrefix(TrimSpace(node.Content), "export ")]

\* the builders that only wrap the node (if, while, switch, try, return,
\* throw, break, continue, import, expression)
buildPlain(variant, node) == [variant |-> variant, BaseNode |-> node]

\* the last rule of buildStatement: an expression statement unless the
\* text is blank or a line comment
\* faulty variant: every remaining node becomes an expression statement
buildFallbackKeepAll(node) ==
    buildPlain("ExpressionStatement", node)

buildFallback(node) ==
    IF Len(TrimSpace(node.Content)) > 0 /\ ~HasPrefix(node.Content, "//")
    THEN buildPlain("ExpressionStatement", node)
    ELSE NilStmt

\* faulty variant: the enum rule is tried before every other rule
buildStatementEnumFirst(h, id) ==
    IF id = NilPtr THEN NilStmt
    ELSE
    LET node == h[id]
        text == node.Content
        trim == TrimSpace(text)
    IN  IF Contains(text, "enum ")
            THEN buildEnumDeclaration(node)
        ELSE IF HasPrefix(trim, "const ") \/ HasPrefix(trim, "let ")
                                     \/ HasPrefix(trim, "var ")
            THEN buildVariableStatement(node)
        ELSE IF HasPrefix(trim, "function ")
                    \/ HasPrefix(trim, "async function")
            THEN buildFunctionDeclaration(h, node)
        ELSE IF HasPrefix(trim, "class ") \/ HasPrefix(trim, "abstract class")
            THEN buildClassDeclaration(h, node)
        ELSE IF HasPrefix(trim, "if ") \/ HasPrefix(trim, "if(")
            THEN buildPlain("IfStatement", node)
        ELSE IF HasPrefix(trim, "while ") \/ HasPrefix(trim, "while(")
            THEN buildPlain("WhileStatement", node)
        ELSE IF HasPrefix(trim, "for ") \/ HasPrefix(trim, "for(")
            THEN buildForStatement(node)
        ELSE IF HasPrefix(trim, "switch ") \/ HasPrefix(trim, "switch(")
            THEN buildPlain("SwitchStatement", node)
        ELSE IF HasPrefix(trim, "try ") \/ HasPrefix(trim, "try{")
            THEN buildPlain("TryStatement", node)
        ELSE IF HasPrefix(trim, "return")
            THEN buildPlain("ReturnStatement", node)
        ELSE IF HasPrefix(trim, "throw ")
            THEN buildPlain("ThrowStatement", node)
        ELSE IF HasPrefix(trim, "break")
            THEN buildPlain("BreakStatement", node)
        ELSE IF HasPrefix(trim, "continue")
            THEN buildPlain("ContinueStatement", node)
        ELSE IF HasPrefix(trim, "import ")
            THEN buildPlain("ImportDeclaration", node)
        ELSE IF HasPrefix(trim, "export ")
            THEN buildExportDeclaration(node)
        ELSE IF Contains(text, "namespace ")
            THEN buildNamespaceDeclaration(node)
        ELSE buildFallback(node)

buildStatement(h, id) ==
    IF id = NilPtr THEN NilStmt
    ELSE
    LET node == h[id]
        text == node.Content
        trim == TrimSpace(text)
    IN  IF HasPrefix(trim, "const ") \/ HasPrefix(trim, "let ")
                                     \/ HasPrefix(trim, "var ")
            THEN buildVariableStatement(node)
        ELSE IF HasPrefix(trim, "function ")
                    \/ HasPrefix(trim, "async function")
            THEN buildFunctionDeclaration(h, node)
        ELSE IF HasPrefix(trim, "class ") \/ HasPrefix(trim, "abstract class")
            THEN buildClassDeclaration(h, node)
        ELSE IF HasPrefix(trim, "if ") \/ HasPrefix(trim, "if(")
            THEN buildPlain("IfStatement", node)
        ELSE IF HasPrefix(trim, "while ") \/ HasPrefix(trim, "while(")
            THEN buildPlain("WhileStatement", node)
        ELSE IF HasPrefix(trim, "for ") \/ HasPrefix(trim, "for(")
            THEN buildForStatement(node)
        ELSE IF HasPrefix(trim, "switch ") \/ HasPrefix(trim, "switch(")
            THEN buildPlain("SwitchStatement", node)
        ELSE IF HasPrefix(trim, "try ") \/ HasPrefix(trim, "try{")
            THEN buildPlain("TryStatement", node)
        ELSE IF HasPrefix(trim, "return")
            THEN buildPlain("ReturnStatement", node)
        ELSE IF HasPrefix(trim, "throw ")
            THEN buildPlain("ThrowStatement", node)
        ELSE IF HasPrefix(trim, "break")
            THEN buildPlain("BreakStatement", node)
        ELSE IF HasPrefix(trim, "continue")
            THEN buildPlain("ContinueStatement", node)
        ELSE IF HasPrefix(trim, "import ")
            THEN buildPlain("ImportDeclaration", node)
        ELSE IF HasPrefix(trim, "export ")
            THEN buildExportDeclaration(node)
        ELSE IF Contains(text, "enum ")
            THEN buildEnumDeclaration(node)
        ELSE IF Contains(text, "namespace ")
            THEN buildNamespaceDeclaration(node)
        ELSE buildFallback(node)

\* the loop over node.Children(), from the i-th child on
RECURSIVE extractFrom(_, _, _)
\* faulty variant: the statements of a child's own children are extracted too
extractFromDeep(h, children, i) ==
    IF i > Len(children) THEN <<>>
    ELSE LET stmt == buildStatement(h, children[i])
         IN  (IF stmt # NilStmt THEN <<stmt>> ELSE <<>>)
                 \o extractFrom(h, h[children[i]].ChildNodes, 1)
                 \o extractFrom(h, children, i + 1)

extractFrom(h, children, i) ==
    IF i > Len(children) THEN <<>>
    ELSE LET stmt == buildStatement(h, children[i])
         IN  (IF stmt # NilStmt THEN <<stmt>> ELSE <<>>)
                 \o extractFrom(h, children, i + 1)

\* faulty variant: the children of the first child are gone through as well
extractStatementsBelowFirst(h, node) ==
    IF node = NilPtr THEN <<>>
    ELSE extractFrom(h, h[node].ChildNodes, 1)
             \o (IF h[node].ChildNodes = <<>> THEN <<>>
                 ELSE extractFrom(h, h[h[node].ChildNodes[1]].ChildNodes, 1))

extractStatements(h, node) ==
    IF node = NilPtr THEN <<>> ELSE extractFrom(h, h[node].ChildNodes, 1)

(***************************************************************************)
(* The sources the model parses: each top-level construct with the tree    *)
(* the TypeScript grammar gives it (keyword and punctuation tokens are     *)
(* nodes of their own; class, enum and namespace names are type or plain   *)
(* identifiers as the grammar has them).                                   *)
(***************************************************************************)
Tok(t) == L(t, t)
Id(t) == L("identifier", t)
TypeId(t) == L("type_identifier", t)
PropId(t) == L("property_identifier", t)
Num(t) == L("number", t)
Str(t) == N("string", "'" \o t \o "'",
            <<Tok("'"), L("string_fragment", t), Tok("'")>>)
\* the empty body of the given kind, and the block around one statement
Braces(kind) == N(kind, "{}", <<Tok("{"), Tok("}")>>)
EmptyBlock == Braces("statement_block")
Block(stmt) == N("statement_block", "{ " \o stmt.text \o " }",
                 <<Tok("{"), stmt, Tok("}")>>)
Params(t) == N("formal_parameters", t, <<Tok("("), Tok(")")>>)
Param(t) == N("required_parameter", t, <<Id(t)>>)
Paren(e) == N("parenthesized_expression", "(" \o e.text \o ")",
              <<Tok("("), e, Tok(")")>>)
Declarator(name, value) ==
    N("variable_declarator", name \o " = " \o value.text,
      <<Id(name), Tok("="), value>>)
\* `() => body`
Arrow(body) == N("arrow_function", "() => " \o body.text,
                 <<Params("()"), Tok("=>"), body>>)
\* `name()`
Call(name) == N("call_expression", name \o "()",
                <<Id(name), N("arguments", "()", <<Tok("("), Tok(")")>>)>>)

sConst == N("lexical_declaration", "const x = 42;",
            <<Tok("const"), Declarator("x", Num("42")), Tok(";")>>)
sLet == N("lexical_declaration", "let y = 1;",
          <<Tok("let"), Declarator("y", Num("1")), Tok(";")>>)
sVar == N("variable_declaration", "var z = true;",
          <<Tok("var"), Declarator("z", L("true", "true")), Tok(";")>>)
sVarConstText == N("variable_declaration", "var s = 'const ';",
          <<Tok("var"), Declarator("s", Str("const ")), Tok(";")>>)
sConstEnum == N("enum_declaration", "const enum E {}",
          <<Tok("const"), Tok("enum"), Id("E"), Braces("enum_body")>>)
sArrow == N("lexical_declaration", "const add = (a, b) => a + b;",
          <<Tok("const"),
            N("variable_declarator", "add = (a, b) => a + b",
              <<Id("add"), Tok("="),
                N("arrow_function", "(a, b) => a + b",
                  <<N("formal_parameters", "(a, b)",
                      <<Tok("("), Param("a"), Tok(","), Param("b"),
                        Tok(")")>>),
                    Tok("=>"),
                    N("binary_expression", "a + b",
                      <<Id("a"), Tok("+"), Id("b")>>)>>)>>),
            Tok(";")>>)

sFunction == N("function_declaration", "function test() { return 42; }",
          <<Tok("function"), Id("test"), Params("()"),
            Block(N("return_statement", "return 42;",
                    <<Tok("return"), Num("42"), Tok(";")>>))>>)
sAsyncFunction == N("function_declaration", "async function g() {}",
          <<Tok("async"), Tok("function"), Id("g"), Params("()"),
            EmptyBlock>>)
sFunctionAsyncBody == N("function_declaration",
          "function h(cb) { return async () => cb; }",
          <<Tok("function"), Id("h"),
            N("formal_parameters", "(cb)",
              <<Tok("("), Param("cb"), Tok(")")>>),
            Block(N("return_statement", "return async () => cb;",
                    <<Tok("return"),
                      N("arrow_function", "async () => cb",
                        <<Tok("async"), Params("()"), Tok("=>"),
                          Id("cb")>>),
                      Tok(";")>>))>>)
sGenerator == N("generator_function_declaration", "function* gen() {}",
          <<Tok("function"), Tok("*"), Id("gen"), Params("()"),
            EmptyBlock>>)
sFunctionError == N("ERROR", "function {{{{ invalid",
          <<Tok("function"), Tok("{"), Tok("{"), Tok("{"), Tok("{"),
            Id("invalid")>>)
sFunctionTwoIds == N("ERROR", "function foo bar",
          <<Tok("function"), Id("foo"), Id("bar")>>)
sFunctionNoName == N("ERROR", "function (a) {}",
          <<Tok("function"),
            N("formal_parameters", "(a)",
              <<Tok("("), Param("a"), Tok(")")>>),
            EmptyBlock>>)

sClass == N("class_declaration", "class MyClass { constructor() {} }",
          <<Tok("class"), TypeId("MyClass"),
            N("class_body", "{ constructor() {} }",
              <<Tok("{"),
                N("method_definition", "constructor() {}",
                  <<PropId("constructor"), Params("()"), EmptyBlock>>),
                Tok("}")>>)>>)
sClassExtends == N("class_declaration", "class Foo extends Bar {}",
          <<Tok("class"), TypeId("Foo"),
            N("class_heritage", "extends Bar",
              <<N("extends_clause", "extends Bar",
                  <<Tok("extends"), Id("Bar")>>)>>),
            Braces("class_body")>>)
sClassGeneric == N("class_declaration", "class Box<T> {}",
          <<Tok("class"), TypeId("Box"),
            N("type_parameters", "<T>",
              <<Tok("<"), N("type_parameter", "T", <<TypeId("T")>>),
                Tok(">")>>),
            Braces("class_body")>>)
sAbstractClass == N("abstract_class_declaration", "abstract class A {}",
          <<Tok("abstract"), Tok("class"), TypeId("A"),
            Braces("class_body")>>)
sClassIdent == N("ERROR", "class C implements I",
          <<Tok("class"), Id("C"), Tok("implements"), Id("I")>>)
sClassError == N("ERROR", "class Foo", <<Tok("class"), TypeId("Foo")>>)
sClassAnonymous == N("expression_statement", "class {}",
          <<N("class", "class {}",
              <<Tok("class"), Braces("class_body")>>)>>)

sIf == N("if_statement", "if (x) {}",
          <<Tok("if"), Paren(Id("x")), EmptyBlock>>)
sIfTight == N("if_statement", "if(x) {}",
          <<Tok("if"), Paren(Id("x")), EmptyBlock>>)
sWhile == N("while_statement", "while (x) {}",
          <<Tok("while"), Paren(Id("x")), EmptyBlock>>)
sFor == N("for_statement", "for (let i = 0; i < 10; i++) {}",
          <<Tok("for"), Tok("("),
            N("lexical_declaration", "let i = 0;",
              <<Tok("let"), Declarator("i", Num("0")), Tok(";")>>),
            N("binary_expression", "i < 10",
              <<Id("i"), Tok("<"), Num("10")>>),
            Tok(";"),
            N("update_expression", "i++", <<Id("i"), Tok("++")>>),
            Tok(")"), EmptyBlock>>)
sForTight == N("for_statement", "for(;;) {}",
          <<Tok("for"), Tok("("),
            N("empty_statement", ";", <<Tok(";")>>),
            N("empty_statement", ";", <<Tok(";")>>),
            Tok(")"), EmptyBlock>>)
sForOf == N("for_in_statement", "for (const item of items) {}",
          <<Tok("for"), Tok("("), Tok("const"), Id("item"), Tok("of"),
            Id("items"), Tok(")"), EmptyBlock>>)
sForAwaitOf == N("for_in_statement", "for await (const x of xs) {}",
          <<Tok("for"), Tok("await"), Tok("("), Tok("const"), Id("x"),
            Tok("of"), Id("xs"), Tok(")"), EmptyBlock>>)
sForIn == N("for_in_statement", "for (const k in o) {}",
          <<Tok("for"), Tok("("), Tok("const"), Id("k"), Tok("in"),
            Id("o"), Tok(")"), EmptyBlock>>)
sForInOfBody == N("for_in_statement", "for (const k in o) { log('1 of 2'); }",
          <<Tok("for"), Tok("("), Tok("const"), Id("k"), Tok("in"),
            Id("o"), Tok(")"),
            Block(N("expression_statement", "log('1 of 2');",
                    <<N("call_expression", "log('1 of 2')",
                        <<Id("log"),
                          N("arguments", "('1 of 2')",
                            <<Tok("("), Str("1 of 2"), Tok(")")>>)>>),
                      Tok(";")>>))>>)
sSwitch == N("switch_statement", "switch (x) {}",
          <<Tok("switch"), Paren(Id("x")), Braces("switch_body")>>)
sTry == N("try_statement", "try {} catch (e) {}",
          <<Tok("try"), EmptyBlock,
            N("catch_clause", "catch (e) {}",
              <<Tok("catch"), Tok("("), Id("e"), Tok(")"), EmptyBlock>>)>>)
sReturn == N("return_statement", "return;", <<Tok("return"), Tok(";")>>)
sThrow == N("throw_statement", "throw e;",
          <<Tok("throw"), Id("e"), Tok(";")>>)
sBreak == N("break_statement", "break;", <<Tok("break"), Tok(";")>>)
sContinue == N("continue_statement", "continue;",
          <<Tok("continue"), Tok(";")>>)
sImport == N("import_statement", "import a from 'a';",
          <<Tok("import"), N("import_clause", "a", <<Id("a")>>),
            Tok("from"), Str("a"), Tok(";")>>)
sImportEnum == N("import_statement", "import { enum } from 'e';",
          <<Tok("import"),
            N("import_clause", "{ enum }",
              <<N("named_imports", "{ enum }",
                  <<Tok("{"),
                    N("import_specifier", "enum", <<Id("enum")>>),
                    Tok("}")>>)>>),
            Tok("from"), Str("e"), Tok(";")>>)

sExportFunction == N("export_statement",
          "export function test() { return 42; }",
          <<Tok("export"), sFunction>>)
sExportAsync == N("export_statement", "export async function f() {}",
          <<Tok("export"),
            N("function_declaration", "async function f() {}",
              <<Tok("async"), Tok("function"), Id("f"), Params("()"),
                EmptyBlock>>)>>)
sExportDefault == N("export_statement", "export default x;",
          <<Tok("export"), Tok("default"), Id("x"), Tok(";")>>)
sExportEnum == N("export_statement", "export enum E {}",
          <<Tok("export"),
            N("enum_declaration", "enum E {}",
              <<Tok("enum"), Id("E"), Braces("enum_body")>>)>>)
sExportArrow == N("export_statement", "export const f = () => 1;",
          <<Tok("export"),
            N("lexical_declaration", "const f = () => 1;",
              <<Tok("const"), Declarator("f", Arrow(Num("1"))),
                Tok(";")>>)>>)

sEnum == N("enum_declaration", "enum Color { Red }",
          <<Tok("enum"), Id("Color"),
            N("enum_body", "{ Red }",
              <<Tok("{"), PropId("Red"), Tok("}")>>)>>)
sDeclareEnum == N("ambient_declaration", "declare const enum D {}",
          <<Tok("declare"),
            N("enum_declaration", "const enum D {}",
              <<Tok("const"), Tok("enum"), Id("D"),
                Braces("enum_body")>>)>>)
sNamespace == N("expression_statement", "namespace NS {}",
          <<N("internal_module", "namespace NS {}",
              <<Tok("namespace"), Id("NS"), EmptyBlock>>)>>)
sNamespaceExport == N("expression_statement",
          "namespace A { export const x = 1; }",
          <<N("internal_module", "namespace A { export const x = 1; }",
              <<Tok("namespace"), Id("A"),
                Block(N("export_statement", "export const x = 1;",
                        <<Tok("export"),
                          N("lexical_declaration", "const x = 1;",
                            <<Tok("const"), Declarator("x", Num("1")),
                              Tok(";")>>)>>))>>)>>)
sDeclareNamespace == N("ambient_declaration", "declare namespace enum_ {}",
          <<Tok("declare"),
            N("internal_module", "namespace enum_ {}",
              <<Tok("namespace"), Id("enum_"), EmptyBlock>>)>>)
sExpression == N("expression_statement", "foo();",
          <<Call("foo"), Tok(";")>>)
sReturnValue == N("expression_statement", "returnValue();",
          <<Call("returnValue"), Tok(";")>>)
sComment == L("comment", "// This is a comment")
sCommentEnum == L("comment", "// enum values")
sCommentNamespace == L("comment", "// namespace helpers")
sBlockComment == L("comment", "/* note */")
\* a zero-width node, as the engine inserts for a missing token
sMissing == L(";", "")

\* a statement one of whose children the engine reports as null
sNullChild == N("expression_statement", "f;", <<Id("f"), Null, Tok(";")>>)

\* arrow functions in other places than the initializer of a declaration
sObjArrow == N("lexical_declaration", "const obj = { method: () => 42 };",
          <<Tok("const"),
            N("variable_declarator", "obj = { method: () => 42 }",
              <<Id("obj"), Tok("="),
                N("object", "{ method: () => 42 }",
                  <<Tok("{"),
                    N("pair", "method: () => 42",
                      <<PropId("method"), Tok(":"), Arrow(Num("42"))>>),
                    Tok("}")>>)>>),
            Tok(";")>>)
sObjArrowBare == N("lexical_declaration", "const obj = { method: () => 42 }",
          <<Tok("const"),
            N("variable_declarator", "obj = { method: () => 42 }",
              <<Id("obj"), Tok("="),
                N("object", "{ method: () => 42 }",
                  <<Tok("{"),
                    N("pair", "method: () => 42",
                      <<PropId("method"), Tok(":"), Arrow(Num("42"))>>),
                    Tok("}")>>)>>)>>)
sArrayArrow == N("expression_statement", "[() => 1, y];",
          <<N("array", "[() => 1, y]",
              <<Tok("["), Arrow(Num("1")), Tok(","), Id("y"), Tok("]")>>),
            Tok(";")>>)
sArrayStringArrow == N("expression_statement", "['a', () => 1, a];",
          <<N("array", "['a', () => 1, a]",
              <<Tok("["), Str("a"), Tok(","), Arrow(Num("1")), Tok(","),
                Id("a"), Tok("]")>>),
            Tok(";")>>)
sCallArrow == N("expression_statement", "run(() => 1);",
          <<N("call_expression", "run(() => 1)",
              <<Id("run"),
                N("arguments", "(() => 1)",
                  <<Tok("("), Arrow(Num("1")), Tok(")")>>)>>),
            Tok(";")>>)
sExportParenArrow == N("export_statement", "export const g = (() => 1);",
          <<Tok("export"),
            N("lexical_declaration", "const g = (() => 1);",
              <<Tok("const"), Declarator("g", Paren(Arrow(Num("1")))),
                Tok(";")>>)>>)
sExportObjArrow == N("export_statement", "export const o = { m: () => 1 };",
          <<Tok("export"),
            N("lexical_declaration", "const o = { m: () => 1 };",
              <<Tok("const"),
                N("variable_declarator", "o = { m: () => 1 }",
                  <<Id("o"), Tok("="),
                    N("object", "{ m: () => 1 }",
                      <<Tok("{"),
                        N("pair", "m: () => 1",
                          <<PropId("m"), Tok(":"), Arrow(Num("1"))>>),
                        Tok("}")>>)>>),
                Tok(";")>>)>>)
\* a function declared in the body of an exported function
sExportNested == N("export_statement",
          "export function a() { function b() {} }",
          <<Tok("export"),
            N("function_declaration", "function a() { function b() {} }",
              <<Tok("function"), Id("a"), Params("()"),
                Block(N("function_declaration", "function b() {}",
                        <<Tok("function"), Id("b"), Params("()"),
                          EmptyBlock>>))>>)>>)

\* an arrow function inside d pairs of parentheses
RECURSIVE NestExpr(_)
NestExpr(d) ==
    IF d = 0
    THEN Arrow(Num("1"))
    ELSE Paren(NestExpr(d - 1))

\* the expression statement of it, and the declaration it initializes
sNest(d) ==
    LET e == NestExpr(d)
    IN  N("expression_statement", e.text \o ";", <<e, Tok(";")>>)
sNamedNest(d) ==
    LET e == NestExpr(d)
    IN  N("lexical_declaration", "const h = " \o e.text \o ";",
          <<Tok("const"), Declarator("h", e), Tok(";")>>)

Nests == {sNest(d) : d \in 0..MaxNest} \cup {sNamedNest(d) : d \in 1..MaxNest}

\* every construct, parsed as a source of its own
Constructs ==
    {sConst, sLet, sVar, sVarConstText, sConstEnum, sArrow,
     sFunction, sAsyncFunction, sFunctionAsyncBody, sGenerator,
     sFunctionError, sFunctionTwoIds, sFunctionNoName,
     sClass, sClassExtends, sClassGeneric, sAbstractClass, sClassIdent,
     sClassError, sClassAnonymous,
     sIf, sIfTight, sWhile, sFor, sForTight, sForOf, sForAwaitOf, sForIn,
     sForInOfBody, sSwitch, sTry, sReturn, sThrow, sBreak, sContinue,
     sImport, sImportEnum,
     sExportFunction, sExportAsync, sExportDefault, sExportEnum, sExportArrow,
     sEnum, sDeclareEnum, sNamespace, sNamespaceExport, sDeclareNamespace,
     sExpression, sReturnValue,
     sComment, sCommentEnum, sCommentNamespace, sBlockComment,
     sNullChild, sObjArrow, sObjArrowBare, sArrayArrow, sArrayStringArrow,
     sCallArrow, sExportParenArrow,
     sExportObjArrow, sExportNested}
        \cup Nests

\* the constructs that are mixed into longer sources
Mixed == {sLet, sExportDefault, sComment, sMissing}

RECURSIVE SeqsUpTo(_, _)
SeqsUpTo(S, n) ==
    IF n = 0 THEN {<<>>}
    ELSE LET shorter == SeqsUpTo(S, n - 1)
         IN  shorter \cup {Append(q, x) : q \in shorter, x \in S}

\* sources of several declarations, some exported and some not
Programs ==
    {<<sExportDefault, sFunction>>, <<sFunction, sExportDefault>>,
     <<sExportArrow, sArrow>>, <<sComment, sExportFunction, sAsyncFunction>>}

\* the sources: every construct alone, the mixed sequences (the empty
\* sequence is the zero-length source) and the programs
Sources ==
    {<<c>> : c \in Constructs} \cup SeqsUpTo(Mixed, MaxTop) \cup Programs

(***************************************************************************)
(* Analyzer: Visit, FindNodes, CountNodes.  A visitor is given by the set  *)
(* of nodes on which it returns false; the value of Visit is the sequence  *)
(* of nodes the visitor was called on.  A predicate is given by the set of *)
(* node types it accepts.                                                  *)
(***************************************************************************)
RECURSIVE visitNode(_, _, _), visitChildren(_, _, _, _)
\* faulty variant: the visitor's answer is ignored
visitNodeNoStop(h, node, stops) ==
    IF node = NilPtr THEN <<>>
    ELSE <<node>> \o visitChildren(h, h[node].ChildNodes, 1, stops)

visitNode(h, node, stops) ==
    IF node = NilPtr THEN <<>>
    ELSE IF node \in stops THEN <<node>>
    ELSE <<node>> \o visitChildren(h, h[node].ChildNodes, 1, stops)

\* the loop over node.Children(), from the i-th child on
\* faulty variant: the children are visited last to first
visitChildrenReversed(h, children, i, stops) ==
    IF i > Len(children) THEN <<>>
    ELSE visitChildren(h, children, i + 1, stops)
             \o visitNode(h, children[i], stops)

visitChildren(h, children, i, stops) ==
    IF i > Len(children) THEN <<>>
    ELSE visitNode(h, children[i], stops)
             \o visitChildren(h, children, i + 1, stops)

Visit(h, r, stops) ==
    IF r = NilPtr THEN <<>> ELSE visitNode(h, r, stops)

Accepts(h, types, node) == h[node].NodeType \in types

\* the visitor of FindNodes appends the accepted node and returns true
\* faulty variant: the visitor returns the predicate's answer
FindNodesPruning(h, r, types) ==
    SelectSeq(Visit(h, r, {n \in 1..Len(h) : ~Accepts(h, types, n)}),
              LAMBDA n : Accepts(h, types, n))

FindNodes(h, r, types) ==
    SelectSeq(Visit(h, r, {}), LAMBDA n : Accepts(h, types, n))

RECURSIVE CountAccepted(_, _, _)
\* the visitor of CountNodes increments count on an accepted node
CountAccepted(h, types, visited) ==
    IF visited = <<>> THEN 0
    ELSE (IF Accepts(h, types, Head(visited)) THEN 1 ELSE 0)
             + CountAccepted(h, types, Tail(visited))

CountNodes(h, r, types) == CountAccepted(h, types, Visit(h, r, {}))

(***************************************************************************)
(* The node helpers of analyzer/function.go.                               *)
(***************************************************************************)
\* the number of ancestors IsExported looks at
ExportLevels == 3

\* the closure isExportNode of IsExported
isExportNode(h, n) == HasPrefix(TrimSpace(h[n].Content), "export ")

\* the loop of IsExported: for i := 0; i < 3 && current != nil; i++
RECURSIVE exportedAbove(_, _, _)
\* faulty variant: the loop goes on to the root
exportedAboveAll(h, current, i) ==
    IF current = NilPtr THEN FALSE
    ELSE IF isExportNode(h, current) THEN TRUE
    ELSE exportedAbove(h, h[current].ParentNode, i + 1)

exportedAbove(h, current, i) ==
    IF ~(i < ExportLevels /\ current # NilPtr) THEN FALSE
    ELSE IF isExportNode(h, current) THEN TRUE
    ELSE exportedAbove(h, h[current].ParentNode, i + 1)

IsExported(h, node) ==
    IF node = NilPtr THEN FALSE
    ELSE IF isExportNode(h, node) THEN TRUE
    ELSE exportedAbove(h, h[node].ParentNode, 0)

findIdentifierInChildren(h, node) ==
    LET children == h[node].ChildNodes
        ids == {i \in 1..Len(children) :
                   h[children[i]].NodeType = NodeTypeIdentifier}
    IN  IF ids = {} THEN "" ELSE h[children[Min(ids)]].Content

\* faulty variant: every identifier child is taken for the variable name
isVariableNameForArrowFunctionAny(h, parent, identifier, arrowFunc) ==
    LET identifierPos == Index(h[parent].Content, h[identifier].Content)
        arrowPos      == Index(h[parent].Content, h[arrowFunc].Content)
    IN  identifierPos # -1 /\ arrowPos # -1

isVariableNameForArrowFunction(h, parent, identifier, arrowFunc) ==
    LET identifierPos == Index(h[parent].Content, h[identifier].Content)
        arrowPos      == Index(h[parent].Content, h[arrowFunc].Content)
    IN  IF identifierPos = -1 \/ arrowPos = -1 THEN FALSE
        ELSE identifierPos < arrowPos

\* the loop of extractArrowFunctionName from ancestor current on: the name
\* returned, and the ancestors whose children the loop has looked at
RECURSIVE arrowWalk(_, _, _, _)
arrowWalk(h, current, node, examined) ==
    IF current = NilPtr THEN [name |-> "", examined |-> examined]
    ELSE LET children == h[current].ChildNodes
             names == {i \in 1..Len(children) :
                          /\ h[children[i]].NodeType = NodeTypeIdentifier
                          /\ isVariableNameForArrowFunction(h, current,
                                                            children[i], node)}
             seen == Append(examined, current)
             next == h[current].ParentNode
         IN  IF names # {}
             THEN [name |-> h[children[Min(names)]].Content, examined |-> seen]
             ELSE IF next # NilPtr /\ h[next].ParentNode = next
                  THEN [name |-> "", examined |-> seen]
             ELSE arrowWalk(h, next, node, seen)

extractArrowFunctionName(h, node) ==
    arrowWalk(h, h[node].ParentNode, node, <<>>).name

\* faulty variant: an arrow function is named like a function declaration
GetFunctionNameOwnChildren(h, node) ==
    IF node = NilPtr THEN ""
    ELSE IF h[node].NodeType \in {NodeTypeFunction, NodeTypeMethod,
                                  NodeTypeArrowFunction}
         THEN findIdentifierInChildren(h, node)
    ELSE ""

GetFunctionName(h, node) ==
    IF node = NilPtr THEN ""
    ELSE IF h[node].NodeType \in {NodeTypeFunction, NodeTypeMethod}
         THEN findIdentifierInChildren(h, node)
    ELSE IF h[node].NodeType = NodeTypeArrowFunction
         THEN extractArrowFunctionName(h, node)
    ELSE ""

HasParameters(h, node) ==
    IF node = NilPtr THEN FALSE
    ELSE \E i \in 1..Len(h[node].ChildNodes) :
             h[h[node].ChildNodes[i]].NodeType = NodeTypeParameter

\* the closure countInNode of CountParameters: what the call on node n adds
\* to count
RECURSIVE countInNode(_, _), countInChildren(_, _, _)
\* faulty variant: every node tagged Parameter is counted
countInNodeUnfiltered(h, n) ==
    (IF h[n].NodeType = NodeTypeParameter THEN 1 ELSE 0)
        + countInChildren(h, h[n].ChildNodes, 1)

countInNode(h, n) ==
    LET text == TrimSpace(h[n].Content)
    IN  (IF /\ h[n].NodeType = NodeTypeParameter
            /\ text # ""
            /\ ~HasPrefix(text, "(")
         THEN 1 ELSE 0)
            + countInChildren(h, h[n].ChildNodes, 1)

\* the loop over n.Children(), from the i-th child on
countInChildren(h, children, i) ==
    IF i > Len(children) THEN 0
    ELSE countInNode(h, children[i]) + countInChildren(h, children, i + 1)

CountParameters(h, node) ==
    IF node = NilPtr THEN 0 ELSE countInNode(h, node)

\* the ancestors a GetFunctionName call looks at, nearest first
ExaminedAncestors(h, node) ==
    IF node # NilPtr /\ h[node].NodeType = NodeTypeArrowFunction
    THEN arrowWalk(h, h[node].ParentNode, node, <<>>).examined
    ELSE <<>>

(***************************************************************************)
(* The state machine.  parser is the Parser made by New: its engine handle *)
(* (the field parser), and counters of the Close calls made, of the        *)
(* releases of the engine and of the calls of the engine's Parse.  request *)
(* is the last parse call, source the bytes it was given or read, cst the  *)
(* root the engine returned to it, heap, tree and err its results; root is *)
(* the root of the analyzer in use (analyzer.New); call is the last call   *)
(* of the analyzer or of a node helper with its result, held until the     *)
(* caller has read it.                                                     *)
(***************************************************************************)
NilTree == [Root |-> NilPtr, Statements |-> <<>>, isNil |-> TRUE]

NoRequest == [op |-> "none", path |-> "", panic |-> "", handle |-> ""]

NoCall == [op |-> "none", stops |-> {}, types |-> {}, visited |-> <<>>,
           results |-> <<>>, count |-> 0, tsType |-> "", nodeType |-> "",
           node |-> NilPtr, name |-> "", examined |-> <<>>, flag |-> FALSE]

\* what sitter.Parser.Parse and Tree.RootNode can hand back
EngineOutcomes == {"tree", "nil tree", "nil root"}

\* what a call of a method on the nil pointer ends in
NilDereference == "panic: invalid memory address or nil pointer dereference"

\* what sitter.Parser.Parse can do on the nil handle that Close leaves in
\* the parser: dereference it, or notice it and hand back no tree
NilHandleOutcomes == {NilDereference, "nil tree"}

CallOutcomes == EngineOutcomes \cup NilHandleOutcomes

\* the outcomes of the engine call on a handle
OutcomesOn(handle) ==
    IF handle = "nil" THEN NilHandleOutcomes ELSE EngineOutcomes

\* faulty variant: the source is handed to the engine without the test for
\* the zero-length source
ParseNoEmptyTest(shapes, outcome) ==
    LET src == SourceOf(shapes)
        failed(msg, n) == [heap |-> <<>>, root |-> NilPtr, err |-> msg,
                           cst |-> NullNode, engineCalls |-> n,
                           panic |-> ""]
    IN  IF outcome = NilDereference
        THEN [failed("", 1) EXCEPT !.panic = NilDereference]
        ELSE IF outcome = "nil tree" THEN failed("failed to parse source code", 1)
        ELSE IF outcome = "nil root" THEN failed("failed to get root node", 1)
        ELSE [heap |-> convertNode(Engine(shapes), src, NilPtr, <<>>),
              root |-> 1, err |-> "", cst |-> Engine(shapes),
              engineCalls |-> 1, panic |-> ""]

\* Parser.Parse: the converted root, or the error; engineCalls counts the
\* calls of sitter.Parser.Parse it made
Parse(shapes, outcome) ==
    LET src == SourceOf(shapes)
        failed(msg, n) == [heap |-> <<>>, root |-> NilPtr, err |-> msg,
                           cst |-> NullNode, engineCalls |-> n,
                           panic |-> ""]
    IN  IF Len(src) = 0 THEN failed("source code is empty", 0)
        ELSE IF outcome = NilDereference
        THEN [failed("", 1) EXCEPT !.panic = NilDereference]
        ELSE IF outcome = "nil tree" THEN failed("failed to parse source code", 1)
        ELSE IF outcome = "nil root" THEN failed("failed to get root node", 1)
        ELSE [heap |-> convertNode(Engine(shapes), src, NilPtr, <<>>),
              root |-> 1, err |-> "", cst |-> Engine(shapes),
              engineCalls |-> 1, panic |-> ""]

\* the file system os.ReadFile reads: a path that cannot be read, an empty
\* file and a file with one declaration
FilePaths == {"absent.ts", "empty.ts", "add.ts"}

ReadFile(path) ==
    CASE path = "absent.ts" -> [err |-> TRUE, shapes |-> <<>>]
      [] path = "empty.ts"  -> [err |-> FALSE, shapes |-> <<>>]
      [] path = "add.ts"    -> [err |-> FALSE, shapes |-> <<sArrow>>]

\* Parser.ParseFile
ParseFile(path, outcome) ==
    LET file == ReadFile(path)
    IN  IF file.err
        THEN [heap |-> <<>>, root |-> NilPtr, err |-> "failed to read file",
              cst |-> NullNode, engineCalls |-> 0, panic |-> ""]
        ELSE Parse(file.shapes, outcome)

\* the state after New()
Init ==
    /\ parser = [handle |-> "open", closes |-> 0, released |-> 0,
                 engineCalls |-> 0, nilCalls |-> 0]
    /\ request = NoRequest
    /\ source = ""
    /\ cst = NullNode
    /\ heap = <<>>
    /\ tree = NilTree
    /\ err = ""
    /\ root = NilPtr
    /\ call = NoCall

\* the Tree of ParseTree and ParseTreeFromFile for the result r of Parse
TreeOf(r) ==
    IF r.err # "" THEN NilTree
    ELSE [Root       |-> r.root,
          Statements |-> extractStatements(r.heap, r.root),
          isNil      |-> FALSE]

\* the panic that ends the construction of Tree t from the nodes h, "" when
\* there is none: the slice expression that cuts the name of a function or
\* class out of its text was out of range
PanicOf(h, t) ==
    IF \E i \in 1..Len(t.Statements) :
          LET stmt == t.Statements[i]
          IN  /\ ~HasIdentifierChild(h, stmt.BaseNode)
              /\ \/ /\ stmt.variant = "FunctionDeclaration"
                    /\ functionNameFromText(stmt.BaseNode).panic
                 \/ /\ stmt.variant = "ClassDeclaration"
                    /\ classNameFromText(stmt.BaseNode).panic
    THEN SliceBoundsPanic ELSE ""

\* what the caller of a parse call holds afterwards: the results returned,
\* or nothing but the panic of Parse or of the construction of the Tree;
\* handle is the engine handle the call found in the parser
Outcome(op, path, handle, r) ==
    LET t == TreeOf(r)
        p == IF r.panic # "" THEN r.panic ELSE PanicOf(r.heap, t)
        q == [op |-> op, path |-> path, panic |-> p, handle |-> handle]
    IN  IF p # ""
        THEN [request |-> q, heap |-> <<>>, err |-> "", tree |-> NilTree]
        ELSE [request |-> q, heap |-> r.heap, err |-> r.err, tree |-> t]

\* the parser after a parse call with result r: the calls of
\* sitter.Parser.Parse made, and those made on the nil handle
Engaged(r) ==
    [parser EXCEPT !.engineCalls = @ + r.engineCalls,
                   !.nilCalls = @ + IF parser.handle = "nil"
                                    THEN r.engineCalls ELSE 0]

\* Parser.ParseTree(source), before or after Close.  Parse calls are
\* independent of each other (a call reads nothing an earlier call wrote),
\* so a behaviour makes one.
ParseTree(shapes, outcome) ==
    LET r == Parse(shapes, outcome)
        o == Outcome("ParseTree", "", parser.handle, r)
    IN  /\ request = NoRequest
        /\ call = NoCall
        /\ outcome \in OutcomesOn(parser.handle)
        /\ request' = o.request
        /\ source' = SourceOf(shapes)
        /\ cst' = r.cst
        /\ heap' = o.heap
        /\ err' = o.err
        /\ tree' = o.tree
        /\ parser' = Engaged(r)
        /\ root' = NilPtr
        /\ call' = NoCall

\* Parser.ParseTreeFromFile(path), before or after Close
ParseTreeFromFile(path, outcome) ==
    LET r == ParseFile(path, outcome)
        o == Outcome("ParseTreeFromFile", path, parser.handle, r)
    IN  /\ request = NoRequest
        /\ call = NoCall
        /\ outcome \in OutcomesOn(parser.handle)
        /\ request' = o.request
        /\ source' = SourceOf(ReadFile(path).shapes)
        /\ cst' = r.cst
        /\ heap' = o.heap
        /\ err' = o.err
        /\ tree' = o.tree
        /\ parser' = Engaged(r)
        /\ root' = NilPtr
        /\ call' = NoCall

\* faulty variant: the engine is released whether or not the handle is nil
CloseUnguarded ==
    /\ call = NoCall
    /\ root = NilPtr
    /\ parser.closes < MaxCloses
    /\ parser' = [parser EXCEPT !.handle = "nil",
                                !.released = @ + 1,
                                !.closes = @ + 1]
    /\ UNCHANGED <<request, source, cst, heap, tree, err, root, call>>

\* Parser.Close.  The analyzer reads the tree only, never the parser, so
\* the behaviours that build an analyzer leave out the Close calls.
Close ==
    /\ call = NoCall
    /\ root = NilPtr
    /\ parser.closes < MaxCloses
    /\ parser' = IF parser.handle # "nil"
                 THEN [parser EXCEPT !.handle = "nil",
                                     !.released = @ + 1,
                                     !.closes = @ + 1]
                 ELSE [parser EXCEPT !.closes = @ + 1]
    /\ UNCHANGED <<request, source, cst, heap, tree, err, root, call>>

\* analyzer.New(tree.Root)
NewAnalyzer ==
    /\ call = NoCall
    /\ ~tree.isNil
    /\ parser.closes = 0
    /\ root = NilPtr
    /\ root' = tree.Root
    /\ call' = NoCall
    /\ UNCHANGED <<parser, request, source, cst, heap, tree, err>>

\* the subsets of S of at most k elements
RECURSIVE SubsetsUpTo(_, _)
SubsetsUpTo(S, k) ==
    IF k = 0 THEN {{}}
    ELSE LET smaller == SubsetsUpTo(S, k - 1)
         IN  smaller \cup {T \cup {x} : T \in smaller, x \in S}

\* the visitors: the nodes on which the visitor returns false
StopSets == SubsetsUpTo(1..Len(heap), MaxStops)

\* the predicates: the node types the predicate accepts
TypeSets == SubsetsUpTo(NodeTypes, MaxPredTypes)

\* an analyzer can be called: the one made for the parsed tree, or the one
\* made for the nil root before anything was parsed
AnalyzerReady ==
    /\ call = NoCall
    /\ parser.closes = 0
    /\ root # NilPtr \/ request = NoRequest

\* Analyzer.Visit(visitor)
DoVisit(stops) ==
    /\ AnalyzerReady
    /\ call' = [NoCall EXCEPT !.op = "Visit", !.stops = stops,
                              !.visited = Visit(heap, root, stops)]
    /\ UNCHANGED <<parser, request, source, cst, heap, tree, err, root>>

\* Analyzer.FindNodes(predicate)
DoFindNodes(types) ==
    /\ AnalyzerReady
    /\ call' = [NoCall EXCEPT !.op = "FindNodes", !.types = types,
                              !.results = FindNodes(heap, root, types)]
    /\ UNCHANGED <<parser, request, source, cst, heap, tree, err, root>>

\* Analyzer.CountNodes(predicate)
DoCountNodes(types) ==
    /\ AnalyzerReady
    /\ call' = [NoCall EXCEPT !.op = "CountNodes", !.types = types,
                              !.count = CountNodes(heap, root, types)]
    /\ UNCHANGED <<parser, request, source, cst, heap, tree, err, root>>

\* the raw kind tags handed to the classifier: every tag of the two tables,
\* tags of neither, a tag that differs from a table entry by case or by a
\* suffix, and the empty tag
KindTags ==
    DOMAIN nodeTypeMap \cup expressionTypes
        \cup {"program", "comment", "class_declaration", "type_identifier",
              "property_identifier", "expression_statement",
              "parenthesized_expression", "Identifier", "identifiers",
              "function", "ERROR", ""}

\* Parser.mapNodeType(tsType); the classifier reads nothing of the parser,
\* it is called on the parser as New left it
DoMapNodeType(tsType) ==
    /\ call = NoCall
    /\ request = NoRequest
    /\ parser.closes = 0
    /\ call' = [NoCall EXCEPT !.op = "mapNodeType", !.tsType = tsType,
                              !.nodeType = mapNodeType(tsType)]
    /\ UNCHANGED <<parser, request, source, cst, heap, tree, err, root>>

\* the nodes handed to the helpers of analyzer/function.go: the nodes of the
\* analyzer's tree and the nil node
HelperNodes == {NilPtr} \cup 1..Len(heap)

\* analyzer.GetFunctionName(node)
DoGetFunctionName(node) ==
    /\ call = NoCall
    /\ root # NilPtr
    /\ call' = [NoCall EXCEPT !.op = "GetFunctionName", !.node = node,
                              !.name = GetFunctionName(heap, node),
                              !.examined = ExaminedAncestors(heap, node)]
    /\ UNCHANGED <<parser, request, source, cst, heap, tree, err, root>>

\* analyzer.IsExported(node)
DoIsExported(node) ==
    /\ call = NoCall
    /\ root # NilPtr
    /\ call' = [NoCall EXCEPT !.op = "IsExported", !.node = node,
                              !.flag = IsExported(heap, node)]
    /\ UNCHANGED <<parser, request, source, cst, heap, tree, err, root>>

\* analyzer.HasParameters(node)
DoHasParameters(node) ==
    /\ call = NoCall
    /\ root # NilPtr
    /\ call' = [NoCall EXCEPT !.op = "HasParameters", !.node = node,
                              !.flag = HasParameters(heap, node)]
    /\ UNCHANGED <<parser, request, source, cst, heap, tree, err, root>>

\* analyzer.CountParameters(node)
DoCountParameters(node) ==
    /\ call = NoCall
    /\ root # NilPtr
    /\ call' = [NoCall EXCEPT !.op = "CountParameters", !.node = node,
                              !.count = CountParameters(heap, node)]
    /\ UNCHANGED <<parser, request, source, cst, heap, tree, err, root>>

\* the caller is done with the result of the last call
Discard ==
    /\ call # NoCall
    /\ call' = NoCall
    /\ UNCHANGED <<parser, request, source, cst, heap, tree, err, root>>

Next ==
    \/ \E shapes \in Sources, outcome \in CallOutcomes :
          ParseTree(shapes, outcome)
    \/ \E path \in FilePaths, outcome \in CallOutcomes :
          ParseTreeFromFile(path, outcome)
    \/ Close
    \/ NewAnalyzer
    \/ \E stops \in StopSets : DoVisit(stops)
    \/ \E types \in TypeSets : DoFindNodes(types)
    \/ \E types \in TypeSets : DoCountNodes(types)
    \/ \E tsType \in KindTags : DoMapNodeType(tsType)
    \/ \E node \in HelperNodes : DoGetFunctionName(node)
    \/ \E node \in HelperNodes : DoIsExported(node)
    \/ \E node \in HelperNodes : DoHasParameters(node)
    \/ \E node \in HelperNodes : DoCountParameters(node)
    \/ Discard

Spec == Init /\ [][Next]_vars

(***************************************************************************)
(* Notions the properties are stated with.  They read the tree through its *)
(* parent pointers and child lists only.                                   *)
(***************************************************************************)
Parsed == ~tree.isNil

\* the direct children of the root of the parsed tree
RootChildren ==
    IF Parsed THEN {heap[tree.Root].ChildNodes[i] :
                        i \in 1..Len(heap[tree.Root].ChildNodes)}
    ELSE {}

\* the positions in Tree.Statements of the statements built from node c
StmtsOf(c) ==
    {i \in 1..Len(tree.Statements) : tree.Statements[i].BaseNode = heap[c]}

\* node c gave exactly one statement; TheStmt(c) is that statement
OneStmt(c) == Cardinality(StmtsOf(c)) = 1
TheStmt(c) == tree.Statements[CHOOSE i \in StmtsOf(c) : TRUE]

Trimmed(c) == TrimSpace(heap[c].Content)

\* the source just parsed consists of the given text
ParsedSource(text) == Parsed /\ source = text

RECURSIVE ProperAncestors(_)
ProperAncestors(n) ==
    IF heap[n].ParentNode = NilPtr THEN {}
    ELSE {heap[n].ParentNode} \cup ProperAncestors(heap[n].ParentNode)

\* the path of child positions that leads from the root to node n
RECURSIVE PathOf(_)
PathOf(n) ==
    LET p == heap[n].ParentNode
    IN  IF p = NilPtr THEN <<>>
        ELSE Append(PathOf(p),
                    CHOOSE i \in 1..Len(heap[p].ChildNodes) :
                        heap[p].ChildNodes[i] = n)

\* path a comes before path b in depth-first pre-order: a is a proper
\* prefix of b, or a turns to an earlier child where the two part
PathBefore(a, b) ==
    \/ Len(a) < Len(b) /\ SubSeq(b, 1, Len(a)) = a
    \/ \E k \in 1..Len(a) :
          /\ k <= Len(b)
          /\ SubSeq(a, 1, k - 1) = SubSeq(b, 1, k - 1)
          /\ a[k] < b[k]

\* the nodes of the tree the analyzer was made for
AnalyzerNodes == IF root = NilPtr THEN {} ELSE 1..Len(heap)

\* sequence s lists exactly the nodes of S, each once, in pre-order
PreOrderListing(s, S) ==
    /\ {s[i] : i \in 1..Len(s)} = S
    /\ Len(s) = Cardinality(S)
    /\ \A i \in 1..(Len(s) - 1) : PathBefore(PathOf(s[i]), PathOf(s[i + 1]))

(***************************************************************************)
(* The rules of buildStatement as a priority list.                         *)
(***************************************************************************)
RuleOrder ==
    <<"variable", "function", "class", "if", "while", "for", "switch",
      "try", "return", "throw", "break", "continue", "import", "export",
      "enum", "namespace", "expression">>

\* the text pattern of a rule
RuleMatches(rule, text) ==
    LET t == TrimSpace(text)
    IN  CASE rule = "variable"   -> HasPrefix(t, "const ") \/ HasPrefix(t, "let ")
                                        \/ HasPrefix(t, "var ")
          [] rule = "function"   -> HasPrefix(t, "function ")
                                        \/ HasPrefix(t, "async function")
          [] rule = "class"      -> HasPrefix(t, "class ")
                                        \/ HasPrefix(t, "abstract class")
          [] rule = "if"         -> HasPrefix(t, "if ") \/ HasPrefix(t, "if(")
          [] rule = "while"      -> HasPrefix(t, "while ")
                                        \/ HasPrefix(t, "while(")
          [] rule = "for"        -> HasPrefix(t, "for ") \/ HasPrefix(t, "for(")
          [] rule = "switch"     -> HasPrefix(t, "switch ")
                                        \/ HasPrefix(t, "switch(")
          [] rule = "try"        -> HasPrefix(t, "try ") \/ HasPrefix(t, "try{")
          [] rule = "return"     -> HasPrefix(t, "return")
          [] rule = "throw"      -> HasPrefix(t, "throw ")
          [] rule = "break"      -> HasPrefix(t, "break")
          [] rule = "continue"   -> HasPrefix(t, "continue")
          [] rule = "import"     -> HasPrefix(t, "import ")
          [] rule = "export"     -> HasPrefix(t, "export ")
          [] rule = "enum"       -> Contains(text, "enum ")
          [] rule = "namespace"  -> Contains(text, "namespace ")
          [] rule = "expression" -> Len(t) > 0 /\ ~HasPrefix(text, "//")

\* the statement variants a rule builds
RuleVariants(rule) ==
    CASE rule = "variable"   -> {"VariableStatement"}
      [] rule = "function"   -> {"FunctionDeclaration"}
      [] rule = "class"      -> {"ClassDeclaration"}
      [] rule = "if"         -> {"IfStatement"}
      [] rule = "while"      -> {"WhileStatement"}
      [] rule = "for"        -> {"ForStatement", "ForInStatement",
                                 "ForOfStatement"}
      [] rule = "switch"     -> {"SwitchStatement"}
      [] rule = "try"        -> {"TryStatement"}
      [] rule = "return"     -> {"ReturnStatement"}
      [] rule = "throw"      -> {"ThrowStatement"}
      [] rule = "break"      -> {"BreakStatement"}
      [] rule = "continue"   -> {"ContinueStatement"}
      [] rule = "import"     -> {"ImportDeclaration"}
      [] rule = "export"     -> {"ExportDeclaration"}
      [] rule = "enum"       -> {"EnumDeclaration"}
      [] rule = "namespace"  -> {"NamespaceDeclaration"}
      [] rule = "expression" -> {"ExpressionStatement"}

MatchingRules(text) ==
    {i \in 1..Len(RuleOrder) : RuleMatches(RuleOrder[i], text)}

(***************************************************************************)
(* Properties of the statement reconstructor.                              *)
(***************************************************************************)

\* C1: every direct child of the root is classified by the first rule, in
\* the order variable, function, class, if, while, for, switch, try, return,
\* throw, break, continue, import, export, enum, namespace, expression,
\* whose pattern matches its text: the child gives exactly one statement, of
\* a variant of that rule, and a child no rule matches gives no statement.
C1_FirstMatchingRuleWins ==
    \A c \in RootChildren :
        LET rules == MatchingRules(heap[c].Content)
        IN  IF rules = {} THEN StmtsOf(c) = {}
            ELSE /\ OneStmt(c)
                 /\ TheStmt(c).variant \in RuleVariants(RuleOrder[Min(rules)])

\* a text that starts with "const " and contains "enum " was classified
C1_Witness ==
    /\ ParsedSource("const enum E {}")
    /\ \E c \in RootChildren :
          /\ {1, 15} \subseteq MatchingRules(heap[c].Content)
          /\ OneStmt(c)
          /\ TheStmt(c).variant = "VariableStatement"

\* C2 (as claimed): the source "export async function f() {}" gives exactly
\* one statement, a FunctionDeclaration named "f" that is async and
\* exported.
C2_ExportAsyncIsFunctionDeclaration ==
    ParsedSource("export async function f() {}") =>
        /\ Len(tree.Statements) = 1
        /\ tree.Statements[1].variant = "FunctionDeclaration"
        /\ tree.Statements[1].Name = "f"
        /\ tree.Statements[1].IsAsync
        /\ tree.Statements[1].IsExported

\* C2 (amended): the source "export async function f() {}" gives exactly
\* one statement, an ExportDeclaration that is not a default export.
C2_ExportAsyncIsExportDeclaration ==
    ParsedSource("export async function f() {}") =>
        /\ Len(tree.Statements) = 1
        /\ tree.Statements[1].variant = "ExportDeclaration"
        /\ ~tree.Statements[1].IsDefault

C2_Witness ==
    /\ ParsedSource("export async function f() {}")
    /\ Len(tree.Statements) > 0

\* C3: a direct child of the root whose trimmed text starts with "export "
\* gives exactly one statement, an ExportDeclaration whose IsDefault says
\* whether the text contains "export default"; "export function test()
\* {...}" gives one ExportDeclaration that is not a default export.
C3_ExportDeclaration ==
    /\ \A c \in RootChildren :
          HasPrefix(Trimmed(c), "export ") =>
              /\ OneStmt(c)
              /\ TheStmt(c).variant = "ExportDeclaration"
              /\ TheStmt(c).IsDefault
                     = Contains(heap[c].Content, "export default")
    /\ ParsedSource("export function test() { return 42; }") =>
          /\ Len(tree.Statements) = 1
          /\ tree.Statements[1].variant = "ExportDeclaration"
          /\ ~tree.Statements[1].IsDefault

C3_Witness ==
    /\ ParsedSource("export function test() { return 42; }")
    /\ \E c \in RootChildren :
          HasPrefix(Trimmed(c), "export ") /\ StmtsOf(c) # {}

\* C4: a direct child of the root whose trimmed text starts with
\* "function " and that has an Identifier child gives one
\* FunctionDeclaration named after its first Identifier child, async when
\* the text contains "async ", and not exported; "function test() { return
\* 42; }" gives exactly one statement, named "test", not async, not
\* exported.
C4_FunctionDeclaration ==
    /\ \A c \in RootChildren :
          (HasPrefix(Trimmed(c), "function ")
                /\ \E k \in 1..Len(heap[c].ChildNodes) :
                       heap[heap[c].ChildNodes[k]].NodeType
                           = NodeTypeIdentifier) =>
              LET ids == {k \in 1..Len(heap[c].ChildNodes) :
                            heap[heap[c].ChildNodes[k]].NodeType
                                = NodeTypeIdentifier}
              IN  /\ OneStmt(c)
                  /\ TheStmt(c).variant = "FunctionDeclaration"
                  /\ TheStmt(c).Name
                         = heap[heap[c].ChildNodes[Min(ids)]].Content
                  /\ TheStmt(c).IsAsync = Contains(heap[c].Content, "async ")
                  /\ ~TheStmt(c).IsExported
    /\ ParsedSource("function test() { return 42; }") =>
          /\ Len(tree.Statements) = 1
          /\ tree.Statements[1].variant = "FunctionDeclaration"
          /\ tree.Statements[1].Name = "test"
          /\ ~tree.Statements[1].IsAsync
          /\ ~tree.Statements[1].IsExported

C4_Witness ==
    /\ ParsedSource("function test() { return 42; }")
    /\ \E c \in RootChildren :
          /\ HasPrefix(Trimmed(c), "function ")
          /\ OneStmt(c)
          /\ TheStmt(c).Name = "test"

\* the name the claim of C5 gives a class text: modifier and keyword
\* stripped, cut at the earliest of the delimiters
EarliestDelimiterName(text) ==
    LET t0 == TrimSpace(text)
        t1 == IF HasPrefix(t0, "abstract ")
              THEN TrimSpace(TrimPrefix(t0, "abstract ")) ELSE t0
        t2 == TrimSpace(TrimPrefix(t1, "class "))
        cuts == {Index(t2, classDelims[i]) : i \in 1..Len(classDelims)}
                    \ {-1}
    IN  IF cuts = {} THEN t2 ELSE TrimSpace(Slice(t2, 0, Min(cuts)))

\* C5: the name of a class declaration without an Identifier child is its
\* text, "abstract " and "class " stripped, up to the earliest of "{",
\* " extends", " implements", "<"; "class Foo extends Bar {}" is named
\* "Foo" and "class MyClass { ... }" is named "MyClass".
C5_ClassNameEarliestDelimiter ==
    /\ \A c \in RootChildren :
          (OneStmt(c) /\ TheStmt(c).variant = "ClassDeclaration"
                /\ \A k \in 1..Len(heap[c].ChildNodes) :
                       heap[heap[c].ChildNodes[k]].NodeType
                           # NodeTypeIdentifier) =>
              TheStmt(c).Name = EarliestDelimiterName(heap[c].Content)
    /\ ParsedSource("class Foo extends Bar {}") =>
          tree.Statements[1].Name = "Foo"
    /\ ParsedSource("class MyClass { constructor() {} }") =>
          tree.Statements[1].Name = "MyClass"

\* C6: a direct child of the root whose trimmed text starts with "for " or
\* "for(" is a ForOfStatement if its text contains " of " (IsAwait: the
\* text contains "await "), else a ForInStatement if it contains " in ",
\* else a ForStatement; "for (const item of items) {}" gives one
\* ForOfStatement without await, "for (let i = 0; i < 10; i++) {}" one
\* ForStatement.
C6_ForFamily ==
    /\ \A c \in RootChildren :
          (HasPrefix(Trimmed(c), "for ") \/ HasPrefix(Trimmed(c), "for(")) =>
              /\ OneStmt(c)
              /\ IF Contains(heap[c].Content, " of ")
                 THEN /\ TheStmt(c).variant = "ForOfStatement"
                      /\ TheStmt(c).IsAwait
                             = Contains(heap[c].Content, "await ")
                 ELSE IF Contains(heap[c].Content, " in ")
                 THEN TheStmt(c).variant = "ForInStatement"
                 ELSE TheStmt(c).variant = "ForStatement"
    /\ ParsedSource("for (const item of items) {}") =>
          /\ Len(tree.Statements) = 1
          /\ tree.Statements[1].variant = "ForOfStatement"
          /\ ~tree.Statements[1].IsAwait
    /\ ParsedSource("for (let i = 0; i < 10; i++) {}") =>
          /\ Len(tree.Statements) = 1
          /\ tree.Statements[1].variant = "ForStatement"

\* a for loop whose text contains both " in " and " of " was classified
C6_Witness ==
    /\ Parsed
    /\ \E c \in RootChildren :
          /\ HasPrefix(Trimmed(c), "for ")
          /\ Contains(heap[c].Content, " of ")
          /\ Contains(heap[c].Content, " in ")
          /\ OneStmt(c)

\* C7 (as claimed): a direct child of the root whose trimmed text is empty
\* or is a line comment (starts with "//") gives no statement.
C7_BlankOrCommentDiscarded ==
    \A c \in RootChildren :
        (Trimmed(c) = "" \/ HasPrefix(Trimmed(c), "//")) => StmtsOf(c) = {}

\* C7 (amended): a direct child of the root whose trimmed text is empty, or
\* whose text starts with "//" and contains neither "enum " nor
\* "namespace ", gives no statement.
C7_BlankOrPlainCommentDiscarded ==
    \A c \in RootChildren :
        (\/ Trimmed(c) = ""
         \/ /\ HasPrefix(heap[c].Content, "//")
            /\ ~Contains(heap[c].Content, "enum ")
            /\ ~Contains(heap[c].Content, "namespace ")) => StmtsOf(c) = {}

\* a line comment and a blank node were both discarded from one source
C7_Witness ==
    /\ Parsed
    /\ \E c \in RootChildren : HasPrefix(heap[c].Content, "//")
    /\ \E c \in RootChildren : Trimmed(c) = ""
    /\ tree.Statements = <<>>

(***************************************************************************)
(* Properties of the traversal layer.                                      *)
(***************************************************************************)

\* C8: when the visitor returns false on some nodes, Visit calls it on
\* exactly the nodes that have no proper ancestor among them, each once and
\* in pre-order: below a stopping node nothing is visited, and every node
\* outside the subtrees of the stopping nodes is visited as it is with a
\* visitor that always continues.
C8_StopIsLocal ==
    (call.op = "Visit" /\ call.stops # {} /\ root # NilPtr) =>
        PreOrderListing(call.visited,
                        {n \in AnalyzerNodes :
                            ProperAncestors(n) \cap call.stops = {}})

\* the visitor stopped on a node that has children and a later sibling,
\* and the sibling was visited
C8_Witness ==
    /\ call.op = "Visit"
    /\ root # NilPtr
    /\ \E n \in call.stops, m \in AnalyzerNodes :
          /\ heap[n].ChildNodes # <<>>
          /\ heap[n].ParentNode # NilPtr
          /\ heap[m].ParentNode = heap[n].ParentNode
          /\ m > n
          /\ \E i \in 1..Len(call.visited) : call.visited[i] = m

\* C9: with a visitor that always continues, Visit calls the visitor on
\* every node of the tree exactly once, in depth-first pre-order; on an
\* analyzer whose root is nil it makes no call.
C9_VisitPreOrder ==
    (call.op = "Visit" /\ call.stops = {}) =>
        IF root = NilPtr THEN call.visited = <<>>
        ELSE PreOrderListing(call.visited, 1..Len(heap))

\* a tree of three levels or more was visited to the end
C9_Witness ==
    /\ call.op = "Visit"
    /\ call.stops = {}
    /\ root # NilPtr
    /\ Len(call.visited) = Len(heap)
    /\ \E n \in 1..Len(heap) : Len(PathOf(n)) >= 3

\* C10: FindNodes(p) returns exactly the nodes of the tree that p accepts,
\* each once, in pre-order, whether or not p accepts their ancestors, and
\* CountNodes(p) is the number of those nodes.
C10_FindNodesComplete ==
    LET accepted == {n \in AnalyzerNodes : heap[n].NodeType \in call.types}
    IN  /\ call.op = "FindNodes" => PreOrderListing(call.results, accepted)
        /\ call.op = "CountNodes" => call.count = Cardinality(accepted)

\* a node was found below a node the predicate rejects
C10_Witness ==
    /\ call.op = "FindNodes"
    /\ \E i \in 1..Len(call.results) :
          \E a \in ProperAncestors(call.results[i]) :
              heap[a].NodeType \notin call.types

(***************************************************************************)
(* Properties of the taxonomy classifier.                                  *)
(***************************************************************************)
\* the tag the classification table gives a raw kind tag
TableTag(tsType) ==
    CASE tsType = "function_declaration"   -> "function"
      [] tsType = "arrow_function"         -> "arrow_function"
      [] tsType = "method_definition"      -> "method"
      [] tsType = "interface_declaration"  -> "interface"
      [] tsType = "type_alias_declaration" -> "type_alias"
      [] tsType = "identifier"             -> "identifier"
      [] tsType = "property_signature"     -> "property"
      [] tsType = "formal_parameters"      -> "parameter"
      [] tsType = "required_parameter"     -> "parameter"
      [] tsType = "optional_parameter"     -> "parameter"
      [] tsType = "string"                 -> "literal"
      [] tsType = "number"                 -> "literal"
      [] tsType = "true"                   -> "literal"
      [] tsType = "false"                  -> "literal"
      [] tsType = "null"                   -> "literal"
      [] tsType = "undefined"              -> "literal"
      [] tsType = "binary_expression"      -> "expression"
      [] tsType = "unary_expression"       -> "expression"
      [] tsType = "call_expression"        -> "expression"
      [] tsType = "member_expression"      -> "expression"
      [] tsType = "assignment_expression"  -> "expression"
      [] tsType = "ternary_expression"     -> "expression"
      [] tsType = "new_expression"         -> "expression"
      [] tsType = "await_expression"       -> "expression"
      [] OTHER                             -> "unknown"

\* C11: mapNodeType answers for every raw kind tag, with one of the eleven
\* node types, and the answer is the one of the table: the sixteen direct
\* tags give function, arrow_function, method, interface, type_alias,
\* identifier, property, parameter (three tags) and literal (six tags), the
\* eight expression tags give expression, every other tag gives unknown.
C11_MapNodeTypeTable ==
    call.op = "mapNodeType" =>
        /\ call.nodeType \in NodeTypes
        /\ call.nodeType = TableTag(call.tsType)

\* an expression tag, which is not in the direct table, was classified
C11_Witness ==
    /\ call.op = "mapNodeType"
    /\ call.tsType = "await_expression"
    /\ call.nodeType = NodeTypeExpression

(***************************************************************************)
(* Properties of Parse, ParseTree and ParseTreeFromFile.                   *)
(***************************************************************************)
\* a parse call was made
Requested == request.op # "none"

\* a parse call was made and has returned
Returned == Requested /\ request.panic = ""

\* the call was ParseTreeFromFile and the file could not be read
Unreadable ==
    request.op = "ParseTreeFromFile" /\ ReadFile(request.path).err

\* C12: a parse of a zero-length source fails with an error and without a
\* call of the engine; whenever the parse behind ParseTree or
\* ParseTreeFromFile fails the Tree returned is nil, with the error and
\* with no node and no statement built; otherwise the Tree is non-nil and
\* its Root is a non-nil node.
C12_ParseErrorMeansNilTree ==
    Returned =>
        /\ (Len(source) = 0 /\ ~Unreadable) =>
               err = "source code is empty" /\ parser.engineCalls = 0
        /\ Unreadable => err # "" /\ parser.engineCalls = 0
        /\ err # "" => tree = NilTree /\ heap = <<>>
        /\ err = "" => /\ ~tree.isNil
                       /\ tree.Root # NilPtr
                       /\ tree.Root \in 1..Len(heap)

\* ParseTree was given the zero-length source and returned the nil Tree
C12_Witness ==
    /\ request.op = "ParseTree"
    /\ Len(source) = 0
    /\ err = "source code is empty"
    /\ tree.isNil
    /\ parser.engineCalls = 0

(***************************************************************************)
(* Properties of Close.                                                    *)
(***************************************************************************)
\* C13: Close is idempotent: however many Close calls were made on the
\* parser, one or more, the engine was released exactly once and the handle
\* is nil, so that every call after the first found nothing to release;
\* before the first call the engine is held and was never released.
C13_CloseReleasesOnce ==
    /\ parser.closes = 0 => parser.released = 0 /\ parser.handle = "open"
    /\ parser.closes >= 1 => parser.released = 1 /\ parser.handle = "nil"

\* Close was called again on the closed parser
C13_Witness ==
    /\ parser.closes >= 2
    /\ parser.released = 1
    /\ parser.handle = "nil"

(***************************************************************************)
(* Properties of the converted tree.                                       *)
(***************************************************************************)
\* the nodes of the tree Parse returned
TreeNodes == IF Parsed THEN 1..Len(heap) ELSE {}

\* C14: the text of every node of the tree Parse returns is the source
\* from the node's start offset up to (not including) its end offset.
C14_TextIsSourceSlice ==
    \A n \in TreeNodes :
        heap[n].Content = Slice(source, heap[n].SourceRange.Start.Offset,
                                        heap[n].SourceRange.End.Offset)

\* a parsed tree with a node that neither starts with the source nor ends
\* with it
C14_Witness ==
    /\ ParsedSource("const add = (a, b) => a + b;")
    /\ \E n \in TreeNodes :
          /\ heap[n].Content = "(a, b)"
          /\ heap[n].SourceRange.Start.Offset = 12
          /\ heap[n].SourceRange.End.Offset = 18

\* the children of engine node e that are not null, in the engine's order
EngineChildren(e) == SelectSeq(e.children, LAMBDA c : ~c.null)

\* node n and the nodes below it are the copy of engine node e and of the
\* engine nodes below it: same extent, as many children as e has non-null
\* children, in the same order, each with n as its parent
RECURSIVE Mirrors(_, _)
Mirrors(e, n) ==
    LET kids == EngineChildren(e)
        cs   == heap[n].ChildNodes
    IN  /\ heap[n].SourceRange.Start.Offset = e.start
        /\ heap[n].SourceRange.End.Offset = e.end
        /\ Len(cs) = Len(kids)
        /\ \A i \in 1..Len(cs) :
              /\ heap[cs[i]].ParentNode = n
              /\ Mirrors(kids[i], cs[i])

\* C15: in the tree Parse returns every child c of a node n has n as its
\* parent, the children of a node are the converted non-null children of
\* its engine node in the engine's order, none left out, and the parent of
\* the root is nil, so that the walk from any node along the parents ends
\* after the root.
C15_ParentsAndChildrenMirrorEngine ==
    Parsed =>
        /\ heap[tree.Root].ParentNode = NilPtr
        /\ Mirrors(cst, tree.Root)
        /\ \A n \in TreeNodes \ {tree.Root} : tree.Root \in ProperAncestors(n)

\* the tree of a statement with three engine children, one of them null:
\* the statement has the two others as children, in order
C15_Witness ==
    /\ ParsedSource("f;")
    /\ Len(cst.children[1].children) = 3
    /\ \E n \in TreeNodes :
          /\ heap[n].ParentNode = tree.Root
          /\ Len(heap[n].ChildNodes) = 2
          /\ heap[heap[n].ChildNodes[1]].Content = "f"
          /\ heap[heap[n].ChildNodes[2]].Content = ";"
          /\ heap[heap[n].ChildNodes[2]].ParentNode = n

(***************************************************************************)
(* Properties of the node helpers.                                         *)
(***************************************************************************)
\* the ancestors of node n, the parent first and the root last
RECURSIVE AncestorChain(_)
AncestorChain(n) ==
    IF heap[n].ParentNode = NilPtr THEN <<>>
    ELSE <<heap[n].ParentNode>> \o AncestorChain(heap[n].ParentNode)

\* the last call was GetFunctionName on an arrow function
NamedArrow ==
    /\ call.op = "GetFunctionName"
    /\ call.node # NilPtr
    /\ heap[call.node].NodeType = NodeTypeArrowFunction

\* the positions, among the children of ancestor a, of the identifiers
\* whose text first occurs in the text of a before the text of node f does
NamingChildren(a, f) ==
    {i \in 1..Len(heap[a].ChildNodes) :
        LET c == heap[a].ChildNodes[i]
        IN  /\ heap[c].NodeType = NodeTypeIdentifier
            /\ Index(heap[a].Content, heap[c].Content)
                   < Index(heap[a].Content, heap[f].Content)}

\* the places in the ancestor chain of f of the ancestors with such a child
NamingLevels(f) ==
    {k \in 1..Len(AncestorChain(f)) :
        NamingChildren(AncestorChain(f)[k], f) # {}}

\* C16: the name GetFunctionName gives an arrow function is found by going
\* through its ancestors from the nearest one upwards: it is the text of
\* the first child, in child order, of the first ancestor that has one,
\* that is an identifier and whose text first occurs in the ancestor's text
\* strictly before the arrow function's text first occurs there; it is the
\* empty string when no ancestor has such a child.  For
\* `const add = (a, b) => a + b;` the name is add.
C16_ArrowNameFromNearestAncestor ==
    NamedArrow =>
        LET f      == call.node
            levels == NamingLevels(f)
        IN  /\ IF levels = {} THEN call.name = ""
               ELSE LET a == AncestorChain(f)[Min(levels)]
                        c == heap[a].ChildNodes[Min(NamingChildren(a, f))]
                    IN  call.name = heap[c].Content
            /\ source = "const add = (a, b) => a + b;" => call.name = "add"

\* the arrow function of `const add = (a, b) => a + b;` was given its name
C16_Witness ==
    /\ NamedArrow
    /\ source = "const add = (a, b) => a + b;"
    /\ heap[call.node].Content = "(a, b) => a + b"
    /\ call.name = "add"

\* C17: for the arrow function that is the value of property method in
\* `const obj = { method: () => 42 }` GetFunctionName returns obj, the name
\* of the variable, and not method, the name of the property.
C17_ObjectMethodArrowIsNamedObj ==
    (/\ NamedArrow
     /\ source \in {"const obj = { method: () => 42 }",
                    "const obj = { method: () => 42 };"})
        => call.name = "obj" /\ call.name # "method"

\* the arrow function of the object literal was given a name
C17_Witness ==
    /\ NamedArrow
    /\ source = "const obj = { method: () => 42 }"
    /\ heap[call.node].Content = "() => 42"
    /\ call.name = "obj"

\* the level bounds the trees of the model can tell from no bound at all:
\* those below the depth of the deepest arrow function, which lies under
\* MaxNest pairs of parentheses, a statement and the program
LevelBounds == 0..(MaxNest + 1)

\* C18: there is a constant K, the same for every tree whatever its depth,
\* such that the recovery of an arrow function's name never looks at an
\* ancestor more than K levels above the arrow function.  A walk within
\* the bound K is within every greater bound, so that one K serves every
\* walk exactly when every walk has a K among the bounds.
C18_AscentBoundedByConstant ==
    NamedArrow => \E K \in LevelBounds : Len(call.examined) <= K

\* the text of node n, trimmed, starts with the export keyword and a space
StartsWithExport(n) == HasPrefix(TrimSpace(heap[n].Content), "export ")

\* node n and its parent, grandparent and great-grandparent, as far as
\* they exist
UpToThreeLevels(n) ==
    {n} \cup {AncestorChain(n)[k] : k \in 1..Min({3, Len(AncestorChain(n))})}

\* C19: IsExported(node) is true exactly when the trimmed text of the node
\* or of one of its first three ancestors starts with `export `; an export
\* keyword that only the fourth or a higher ancestor carries gives false,
\* and the nil node gives false.
C19_IsExportedLooksThreeLevelsUp ==
    call.op = "IsExported" =>
        IF call.node = NilPtr THEN ~call.flag
        ELSE call.flag <=> \E a \in UpToThreeLevels(call.node) :
                              StartsWithExport(a)

\* the export statement is the fourth ancestor of the arrow function of
\* `export const g = (() => 1);`, and the answer is false
C19_Witness ==
    /\ call.op = "IsExported"
    /\ source = "export const g = (() => 1);"
    /\ call.node # NilPtr
    /\ heap[call.node].NodeType = NodeTypeArrowFunction
    /\ StartsWithExport(AncestorChain(call.node)[4])
    /\ ~call.flag

\* node n lies in an export statement: n or an ancestor of n other than
\* the root of the tree starts with the export keyword
InExportStatement(n) ==
    \E a \in ({n} \cup ProperAncestors(n)) \ {tree.Root} : StartsWithExport(a)

\* C20: IsExported returns false for every function declaration and every
\* arrow function that is not declared in an export statement, whatever
\* other statements the source has and wherever the function is nested;
\* stated for the functions that lie in no export statement at all.
C20_UnexportedFunctionIsNotExported ==
    (/\ call.op = "IsExported"
     /\ call.node # NilPtr
     /\ heap[call.node].NodeType \in {NodeTypeFunction, NodeTypeArrowFunction}
     /\ ~InExportStatement(call.node))
        => ~call.flag

(***************************************************************************)
(* Further properties of the statement reconstructor.                      *)
(***************************************************************************)
\* the places, among the children of the root, of the children that
\* statement i of the tree was built from
OriginOf(i) ==
    {j \in 1..Len(heap[tree.Root].ChildNodes) :
        heap[heap[tree.Root].ChildNodes[j]] = tree.Statements[i].BaseNode}

\* C21: the statements of the tree come from the direct children of the
\* root only: every statement has the text and the range of exactly one
\* child of the root, no child gives two statements, the statements follow
\* each other as their children do, and no statement is built from a node
\* further down.
C21_StatementsFromRootChildren ==
    Parsed =>
        /\ \A i \in 1..Len(tree.Statements) :
              /\ Cardinality(OriginOf(i)) = 1
              /\ tree.Statements[i].BaseNode.ParentNode = tree.Root
              /\ \A j \in OriginOf(i) :
                    LET c == heap[heap[tree.Root].ChildNodes[j]]
                    IN  /\ tree.Statements[i].BaseNode.Content = c.Content
                        /\ tree.Statements[i].BaseNode.SourceRange
                               = c.SourceRange
        /\ \A i, k \in 1..Len(tree.Statements) :
              i < k => \A j \in OriginOf(i), l \in OriginOf(k) : j < l
        /\ Len(tree.Statements) <= Len(heap[tree.Root].ChildNodes)

\* three children of the root, the first a comment, gave two statements:
\* those of the second and of the third child
C21_Witness ==
    /\ Parsed
    /\ Len(heap[tree.Root].ChildNodes) = 3
    /\ Len(tree.Statements) = 2
    /\ OriginOf(1) = {2}
    /\ OriginOf(2) = {3}
    /\ heap[heap[tree.Root].ChildNodes[2]].ChildNodes # <<>>

(***************************************************************************)
(* Properties of the parameter helpers.                                    *)
(***************************************************************************)
\* node n and the nodes below it
Subtree(n) == {m \in 1..Len(heap) : m = n \/ n \in ProperAncestors(m)}

\* node m is a parameter proper: tagged Parameter, with a text that is not
\* blank and does not open a parameter list
ProperParameter(m) ==
    /\ heap[m].NodeType = NodeTypeParameter
    /\ Trimmed(m) # ""
    /\ ~HasPrefix(Trimmed(m), "(")

\* C22: CountParameters(node) is the number of nodes in the subtree of node
\* that are tagged Parameter and whose trimmed text is not empty and does
\* not start with `(`; the parameter list, whose text starts with `(`, is
\* not counted; the nil node gives 0.
C22_CountParametersCountsProperParameters ==
    call.op = "CountParameters" =>
        IF call.node = NilPtr THEN call.count = 0
        ELSE call.count
                = Cardinality({m \in Subtree(call.node) : ProperParameter(m)})

\* the two parameters of `const add = (a, b) => a + b;` were counted from
\* the arrow function, whose parameter list is tagged Parameter too
C22_Witness ==
    /\ call.op = "CountParameters"
    /\ call.node # NilPtr
    /\ heap[call.node].Content = "(a, b) => a + b"
    /\ \E m \in Subtree(call.node) :
          heap[m].NodeType = NodeTypeParameter /\ heap[m].Content = "(a, b)"
    /\ call.count = 2

\* the texts of declarations that carry no name: the keyword is followed at
\* once by the parameter list or by the body
NamelessPrefixes ==
    {"function (", "async function (", "class {", "abstract class {"}

\* no name can be recovered from node c: it has no Identifier child and
\* its text has no name after the keyword
Nameless(c) ==
    /\ ~HasIdentifierChild(heap, heap[c])
    /\ \E p \in NamelessPrefixes : HasPrefix(Trimmed(c), p)

StatementVariants ==
    UNION {RuleVariants(RuleOrder[i]) : i \in 1..Len(RuleOrder)}

\* C23: the statement reconstructor never fails: no parse call ends in a
\* panic of the reconstruction, every child of the root gives one statement
\* of a known variant or none, and the Name of a statement built from a
\* node that carries no name is the empty string.
C23_ReconstructorTotalEmptyNames ==
    /\ request.panic # SliceBoundsPanic
    /\ Parsed =>
           \A c \in RootChildren :
              /\ Cardinality(StmtsOf(c)) <= 1
              /\ \A i \in StmtsOf(c) :
                    /\ tree.Statements[i].variant \in StatementVariants
                    /\ ("Name" \in DOMAIN tree.Statements[i] /\ Nameless(c))
                          => tree.Statements[i].Name = ""

(***************************************************************************)
(* The loop of extractArrowFunctionName, one step at a time, on trees that *)
(* the caller of GetFunctionName has put together from BaseNode values:    *)
(* the fields of BaseNode are exported, so ParentNode holds whatever the   *)
(* caller stored, and the parent of the topmost node may be nil, the node  *)
(* itself or any node further down.                                        *)
(***************************************************************************)

\* a chain of n ancestors above the arrow function (node 1): the ancestor of
\* level k is node k + 1 and its children are node n + 1 + k, an Identifier
\* when k is in naming, and the node below it; the parent of the topmost
\* node is top
BuiltTree(n, naming, top) ==
    [i \in 1..(2 * n + 1) |->
        IF i = 1
        THEN [NodeType    |-> NodeTypeArrowFunction,
              Content     |-> "() => 1",
              SourceRange |-> [Start |-> [Offset |-> 4],
                               End   |-> [Offset |-> 11]],
              ChildNodes  |-> <<>>,
              ParentNode  |-> IF n = 0 THEN top ELSE 2]
        ELSE IF i <= n + 1
        THEN [NodeType    |-> NodeTypeUnknown,
              Content     |-> "f = () => 1",
              SourceRange |-> [Start |-> [Offset |-> 0],
                               End   |-> [Offset |-> 11]],
              ChildNodes  |-> <<n + i, i - 1>>,
              ParentNode  |-> IF i = n + 1 THEN top ELSE i + 1]
        ELSE [NodeType    |-> IF (i - n - 1) \in naming
                              THEN NodeTypeIdentifier ELSE NodeTypeUnknown,
              Content     |-> "f",
              SourceRange |-> [Start |-> [Offset |-> 0],
                               End   |-> [Offset |-> 1]],
              ChildNodes  |-> <<>>,
              ParentNode  |-> i - n]]

\* the call of extractArrowFunctionName on node 1: the place it has reached,
\* its variable current and the name it returns
WalkCall(pc, current, name) ==
    [op |-> "extractArrowFunctionName", node |-> 1, pc |-> pc,
     current |-> current, name |-> name]

InitWalk ==
    /\ parser = [handle |-> "open", closes |-> 0, released |-> 0,
                 engineCalls |-> 0, nilCalls |-> 0]
    /\ request = NoRequest
    /\ source = ""
    /\ cst = NullNode
    /\ tree = NilTree
    /\ err = ""
    /\ root = NilPtr
    /\ \E n \in 0..MaxChain, naming \in SUBSET (1..MaxChain) :
          \E top \in {NilPtr} \cup 1..(n + 1) :
             /\ naming \subseteq 1..n
             /\ heap = BuiltTree(n, naming, top)
    /\ call = WalkCall("entry", NilPtr, "")

WalkUnchanged ==
    UNCHANGED <<parser, request, source, cst, heap, tree, err, root>>

\* current := node.Parent()
WalkEnter ==
    /\ call.pc = "entry"
    /\ call' = WalkCall("test", heap[call.node].ParentNode, "")
    /\ WalkUnchanged

\* for current != nil, with current nil: return ""
WalkLeave ==
    /\ call.pc = "test"
    /\ call.current = NilPtr
    /\ call' = WalkCall("done", NilPtr, "")
    /\ WalkUnchanged

\* the loop over the children of current: return the text of the first
\* Identifier that qualifies
WalkChildren ==
    /\ call.pc = "test"
    /\ call.current # NilPtr
    /\ LET children == heap[call.current].ChildNodes
           names == {i \in 1..Len(children) :
                        /\ heap[children[i]].NodeType = NodeTypeIdentifier
                        /\ isVariableNameForArrowFunction(heap, call.current,
                                                          children[i],
                                                          call.node)}
       IN  call' = IF names # {}
                   THEN WalkCall("done", call.current,
                                 heap[children[Min(names)]].Content)
                   ELSE WalkCall("ascend", call.current, "")
    /\ WalkUnchanged

\* current = current.Parent(), then the break on a node that is its own
\* parent
WalkAscend ==
    /\ call.pc = "ascend"
    /\ LET next == heap[call.current].ParentNode
       IN  call' = IF next # NilPtr /\ heap[next].ParentNode = next
                   THEN WalkCall("done", next, "")
                   ELSE WalkCall("test", next, "")
    /\ WalkUnchanged

NextWalk == WalkEnter \/ WalkLeave \/ WalkChildren \/ WalkAscend

\* the loop runs on as long as it can
SpecWalk == InitWalk /\ [][NextWalk]_vars /\ WF_vars(NextWalk)

\* C24: the name recovery of an arrow function terminates on every parent
\* chain: the loop of extractArrowFunctionName eventually returns.
C24_ArrowNameRecoveryTerminates == <>(call.pc = "done")

\* the statement variants that carry the flag IsExported
ExportFlagged == {"FunctionDeclaration", "ClassDeclaration",
                  "EnumDeclaration", "NamespaceDeclaration"}

\* C25: every FunctionDeclaration, ClassDeclaration, EnumDeclaration and
\* NamespaceDeclaration in Tree.Statements has IsExported = false.
C25_NoStatementIsExported ==
    Parsed =>
       \A i \in 1..Len(tree.Statements) :
          tree.Statements[i].variant \in ExportFlagged
             => ~tree.Statements[i].IsExported

\* an exported function has become an ExportDeclaration, next to a
\* FunctionDeclaration whose flag is not set
C25_Witness ==
    /\ Parsed
    /\ \E i, j \in 1..Len(tree.Statements) :
          /\ tree.Statements[i].variant = "ExportDeclaration"
          /\ HasPrefix(tree.Statements[i].BaseNode.Content, "export function")
          /\ tree.Statements[j].variant = "FunctionDeclaration"
          /\ ~tree.Statements[j].IsExported

\* C26: a direct child of the root whose trimmed text starts with function*
\* gives a FunctionDeclaration with IsGenerator set and with the name of
\* the generator as its Name.
C26_GeneratorIsFunctionDeclaration ==
    Parsed =>
       \A c \in RootChildren :
          HasPrefix(Trimmed(c), "function*") =>
             /\ OneStmt(c)
             /\ TheStmt(c).variant = "FunctionDeclaration"
             /\ TheStmt(c).IsGenerator
             /\ HasIdentifierChild(heap, heap[c])
                   => TheStmt(c).Name = FirstIdentifierChild(heap, heap[c]).Content

VariableKinds == {"var", "let", "const"}

\* C27: the Kind of every VariableStatement is var, let or const, and it is
\* the keyword that the trimmed text of the statement starts with.
C27_KindIsLeadingKeyword ==
    Parsed =>
       \A i \in 1..Len(tree.Statements) :
          tree.Statements[i].variant = "VariableStatement" =>
             /\ tree.Statements[i].Kind \in VariableKinds
             /\ \A k \in VariableKinds :
                   HasPrefix(TrimSpace(tree.Statements[i].BaseNode.Content),
                             k \o " ")
                      => tree.Statements[i].Kind = k

\* the tags of function nodes
FunctionTags == {NodeTypeFunction, NodeTypeMethod, NodeTypeArrowFunction}

\* C28: on every function node HasParameters is true if and only if
\* CountParameters is greater than 0.
C28_HasParametersIffCountPositive ==
    (/\ call.op = "HasParameters"
     /\ call.node # NilPtr
     /\ heap[call.node].NodeType \in FunctionTags)
        => (call.flag <=> CountParameters(heap, call.node) > 0)

\* the Identifier node whose text GetFunctionName has returned for the
\* arrow function call.node: the first naming child of the last ancestor
\* the loop has looked at
NameSupplier ==
    LET a == call.examined[Len(call.examined)]
    IN  heap[a].ChildNodes[Min(NamingChildren(a, call.node))]

\* C29: when GetFunctionName returns a name for an arrow function, the
\* Identifier node that supplied it starts before the arrow function does:
\* an identifier that only follows the arrow function is never chosen.
C29_NameSupplierPrecedesArrow ==
    (NamedArrow /\ call.name # "") =>
        /\ heap[NameSupplier].Content = call.name
        /\ heap[NameSupplier].SourceRange.Start.Offset
              < heap[call.node].SourceRange.Start.Offset

\* the parse call was ParseTree and it was made after Close
ParsedAfterClose == request.op = "ParseTree" /\ request.handle = "nil"

\* C30: a ParseTree of a non-empty source made after Close returns an error
\* to the caller and makes no call on the nil engine handle; a ParseTree of
\* the empty source made after Close returns the empty-source error.
C30_ParseAfterCloseReturnsError ==
    ParsedAfterClose =>
        IF Len(source) = 0
        THEN request.panic = "" /\ err = "source code is empty"
        ELSE /\ request.panic = ""
             /\ err # ""
             /\ parser.nilCalls = 0

====
